---- MODULE Spec2Model ----
(***************************************************************************)
(* Verification model of ArbEngine-Pro: the circuit breaker                *)
(* (crates/core/src/risk/circuit_breaker.rs), the arbitrage detector       *)
(* (crates/core/src/arbitrage.rs, types.rs) and the trade step of the bot  *)
(* (crates/bot/src/main.rs, execution.rs).                                 *)
(*                                                                         *)
(* Each subsystem has its own specification (SpecBreaker, SpecDetector,    *)
(* SpecFeed, SpecStale, SpecLoops, SpecExec, SpecDecompile, SpecTrading,   *)
(* SpecTrade); the variables of the other subsystems stay at their         *)
(* construction value.                                                     *)
(***************************************************************************)
EXTENDS Integers, Sequences, FiniteSets, TLC

VARIABLES
    \* ---- CircuitBreaker fields (circuit_breaker.rs:12-22) ----
    cb_state,               \* CircuitState: "Closed" | "HalfOpen" | "Open"
    failure_threshold,      \* usize, fixed at construction
    success_threshold,      \* usize, fixed at construction
    timeout,                \* Duration in seconds, fixed at construction
    consecutive_failures,   \* usize counter
    consecutive_successes,  \* usize counter
    last_failure_time,      \* Option<Instant>: NoInstant or a clock value
    \* ---- the monotonic clock read by Instant::now() / elapsed() ----
    now,
    \* ---- observation of the calls made on the breaker ----
    cb_call,                \* the last completed call: operation, result, state and counters before
    fail_run,               \* record_failure calls since the last record_success
    succ_run,               \* record_success calls since the last record_failure
    last_fail_at,           \* clock value of the last record_failure call, or NoInstant
    \* ---- ArbitrageDetector fields (arbitrage.rs:13-17) ----
    price_cache,            \* HashMap<(TokenPair, DexType), PriceData>
    min_profit_threshold,   \* config.min_profit_threshold, fixed at construction
    \* ---- observation of the queries made on the detector ----
    find_call,              \* the list the last find_* call returned, NoCall once the cache changed
    \* ---- the wall clock read by Utc::now(), in ticks of half a second ----
    utc_now,
    \* ---- observation of the writes made on the price cache ----
    cache_call,             \* the last update_prices / clear_stale_prices call and its argument
    \* ---- the detection loop of the bot / of the collector (bot main.rs:228-250, collector main.rs:96-136) ----
    loop_kind,              \* which binary runs: "bot" | "collector", "none" when no loop runs
    loop_pc,                \* the position of the loop in its cycle
    max_price_age_seconds,  \* Config::max_price_age_seconds, fixed at start
    \* ---- VolatilityTracker fields and the last call made on it (volatility.rs:6-13) ----
    tracker,
    \* ---- concurrent tasks on one CircuitBreaker ----
    tasks,                  \* per task: the operation, the await point, the local values
    locks,                  \* per RwLock of the breaker: the task that holds it, or NoTask
    \* ---- BotState / Executor fields read by execute_trade (main.rs:513-527, execution.rs:68-75) ----
    dry_run,                \* BotState::dry_run, fixed at start
    flash_loans_enabled,    \* Executor::flash_loans_enabled, fixed at start
    jito_configured,        \* BotState::jito_client is Some, fixed at start
    \* ---- what execute_trade writes ----
    trades_attempted,       \* metrics.trades_attempted
    trades_successful,      \* metrics.trades_successful
    trades_failed,          \* metrics.trades_failed
    risk_outcomes,          \* the TradeOutcome values passed to risk_manager.record_trade, in order
    history,                \* the TradeRecord lines appended by history_recorder.record_trade
    \* ---- observation of the last execute_trade call ----
    attempt,                \* its decision, the executor result, what it recorded
    \* ---- ExecutionConfig::max_retries (execution.rs:46), fixed at start ----
    max_retries,
    \* ---- observation of the last Executor::execute call ----
    exec_call,              \* its arguments, the calls it made in order, its result
    \* ---- observation of the last extract_instructions_from_tx call ----
    dec_call,               \* the message, the resolver's answer, the build, the outcome
    \* ---- run_trading_loop: where the loop task stands ----
    cycle                   \* position, tick, opportunities, trades passed, executes in progress

cb_vars == << cb_state, failure_threshold, success_threshold, timeout,
              consecutive_failures, consecutive_successes, last_failure_time,
              now, cb_call, fail_run, succ_run, last_fail_at >>

det_vars == << price_cache, min_profit_threshold, find_call, utc_now, cache_call >>

loop_vars == << loop_kind, loop_pc, max_price_age_seconds, tracker, tasks, locks >>

trade_vars == << dry_run, flash_loans_enabled, jito_configured,
                 trades_attempted, trades_successful, trades_failed,
                 risk_outcomes, history, attempt, max_retries, exec_call, dec_call, cycle >>

vars == << cb_state, failure_threshold, success_threshold, timeout,
           consecutive_failures, consecutive_successes, last_failure_time,
           now, cb_call, fail_run, succ_run, last_fail_at,
           price_cache, min_profit_threshold, find_call, utc_now, cache_call,
           loop_kind, loop_pc, max_price_age_seconds, tracker, tasks, locks,
           dry_run, flash_loans_enabled, jito_configured,
           trades_attempted, trades_successful, trades_failed,
           risk_outcomes, history, attempt, max_retries, exec_call, dec_call, cycle >>

(***************************************************************************)
(* Bounds of the model                                                     *)
(***************************************************************************)
MaxThreshold == 3     \* failure_threshold, success_threshold range over 1..MaxThreshold
MaxTimeout == 2       \* timeout ranges over 0..MaxTimeout seconds
MaxTime == 5          \* the clock runs from 0 to MaxTime
MaxCount == 4         \* cap of the two usize counters
MaxCached == 3        \* cap of the number of (pair, venue) keys in the price cache
MaxTrades == 2        \* cap of the number of execute_trade calls that pass the risk gate
MaxBatch == 2         \* cap of the length of the vector passed to update_prices
MaxUtc == 3           \* the wall clock of the staleness specification runs from 0 to MaxUtc ticks
MaxAge == 2           \* clear_stale_prices is called with 0..MaxAge seconds
MaxSkew == 2          \* a quote's timestamp is up to MaxSkew ticks ahead of the wall clock
MaxRetries == 3       \* max_retries ranges over 0..MaxRetries
MaxHeader == 2        \* the three counts of a message header range over 0..MaxHeader
MaxIndex == 3         \* program and account indices of an instruction range over 0..MaxIndex
MaxAccounts == 2      \* cap of the number of account indices of an instruction
MaxTicks == 3         \* cap of the cycles of run_trading_loop
MaxOpportunities == 2 \* cap of the opportunities one cycle detects
MaxTaskTime == 2      \* the clock of the concurrent tasks runs from 0 to MaxTaskTime
MaxCalls == 2         \* cap of the breaker operations one concurrent task calls
MaxUpdates == 4       \* cap of the update_price calls made on one VolatilityTracker
MaxLoopUtc == 12      \* the wall clock of the detection loops runs from 0 to MaxLoopUtc ticks

(***************************************************************************)
(* Circuit breaker                                                         *)
(***************************************************************************)
CircuitState == {"Closed", "HalfOpen", "Open"}

\* Option::None of last_failure_time
NoInstant == -1

\* Instant::elapsed(): time since the instant, on the monotonic clock
Elapsed(instant) == now - instant

\* CircuitBreaker::new(failure_threshold, success_threshold, timeout_secs)
BreakerNew ==
    /\ cb_state = "Closed"
    /\ failure_threshold \in 1..MaxThreshold
    /\ success_threshold \in 1..MaxThreshold
    /\ timeout \in 0..MaxTimeout
    /\ consecutive_failures = 0
    /\ consecutive_successes = 0
    /\ last_failure_time = NoInstant
    /\ now = 0
    /\ cb_call = [op |-> "new", ret |-> TRUE, pre |-> "Closed", pf |-> 0, ps |-> 0]
    /\ fail_run = 0
    /\ succ_run = 0
    /\ last_fail_at = NoInstant

\* variant: the success test is strict, the breaker closes one success late
SuccessStateLate(state, successes) ==
    IF successes > success_threshold /\ state = "HalfOpen" THEN "Closed" ELSE state

\* state after record_success: HalfOpen -> Closed once enough successes
SuccessState(state, successes) ==
    IF successes >= success_threshold /\ state = "HalfOpen" THEN "Closed" ELSE state

\* variant: record_success leaves the failure counter alone
RecordSuccessKeepFailures ==
    /\ consecutive_successes < MaxCount
    /\ consecutive_successes' = consecutive_successes + 1
    /\ consecutive_failures' = consecutive_failures
    /\ cb_state' = SuccessState(cb_state, consecutive_successes + 1)
    /\ cb_call' = [op |-> "record_success", ret |-> TRUE, pre |-> cb_state,
                   pf |-> consecutive_failures, ps |-> consecutive_successes]
    /\ succ_run' = succ_run + 1
    /\ fail_run' = 0
    /\ UNCHANGED << failure_threshold, success_threshold, timeout,
                    last_failure_time, now, last_fail_at, det_vars, trade_vars, loop_vars >>

\* CircuitBreaker::record_success
RecordSuccess ==
    /\ consecutive_successes < MaxCount
    /\ consecutive_successes' = consecutive_successes + 1
    /\ consecutive_failures' = 0
    /\ cb_state' = SuccessState(cb_state, consecutive_successes + 1)
    /\ cb_call' = [op |-> "record_success", ret |-> TRUE, pre |-> cb_state,
                   pf |-> consecutive_failures, ps |-> consecutive_successes]
    /\ succ_run' = succ_run + 1
    /\ fail_run' = 0
    /\ UNCHANGED << failure_threshold, success_threshold, timeout,
                    last_failure_time, now, last_fail_at, det_vars, trade_vars, loop_vars >>

\* variant: the failure test is strict, the breaker opens one failure late
FailureStateLate(state, failures) ==
    IF failures > failure_threshold THEN "Open" ELSE state

\* state after record_failure: Open once the failure counter is at the threshold
FailureState(state, failures) ==
    IF failures >= failure_threshold THEN "Open" ELSE state

\* variant: only the first failure of a run stamps last_failure_time
FailureInstantFirst == IF last_failure_time # NoInstant THEN last_failure_time ELSE now

\* the instant record_failure stores in last_failure_time
FailureInstant == now

\* CircuitBreaker::record_failure
RecordFailure ==
    /\ consecutive_failures < MaxCount
    /\ consecutive_failures' = consecutive_failures + 1
    /\ consecutive_successes' = 0
    /\ last_failure_time' = FailureInstant
    /\ cb_state' = FailureState(cb_state, consecutive_failures + 1)
    /\ cb_call' = [op |-> "record_failure", ret |-> TRUE, pre |-> cb_state,
                   pf |-> consecutive_failures, ps |-> consecutive_successes]
    /\ fail_run' = fail_run + 1
    /\ succ_run' = 0
    /\ last_fail_at' = now
    /\ UNCHANGED << failure_threshold, success_threshold, timeout, now, det_vars, trade_vars, loop_vars >>

\* variant: the cooldown test is strict
TimeoutElapsedStrict ==
    /\ last_failure_time # NoInstant
    /\ Elapsed(last_failure_time) > timeout

\* the cooldown test of can_execute in state Open
TimeoutElapsed ==
    /\ last_failure_time # NoInstant
    /\ Elapsed(last_failure_time) >= timeout

\* the value can_execute returns
CanExecuteResult ==
    CASE cb_state = "Closed" -> TRUE
      [] cb_state = "Open" -> TimeoutElapsed
      [] cb_state = "HalfOpen" -> TRUE

\* CircuitBreaker::can_execute
CanExecute ==
    /\ cb_state' = IF cb_state = "Open" /\ TimeoutElapsed THEN "HalfOpen" ELSE cb_state
    /\ cb_call' = [op |-> "can_execute", ret |-> CanExecuteResult, pre |-> cb_state,
                   pf |-> consecutive_failures, ps |-> consecutive_successes]
    /\ UNCHANGED << failure_threshold, success_threshold, timeout,
                    consecutive_failures, consecutive_successes, last_failure_time,
                    now, fail_run, succ_run, last_fail_at, det_vars, trade_vars, loop_vars >>

\* time passes between two calls
Tick ==
    /\ now < MaxTime
    /\ now' = now + 1
    /\ UNCHANGED << cb_state, failure_threshold, success_threshold, timeout,
                    consecutive_failures, consecutive_successes, last_failure_time,
                    cb_call, fail_run, succ_run, last_fail_at, det_vars, trade_vars, loop_vars >>

(***************************************************************************)
(* Arbitrage detector                                                      *)
(*                                                                         *)
(* A Decimal price p is represented by the integer p * 100 (cents), a      *)
(* Decimal percentage x by the integer x * 10000: 0.0025 is 25, 1.5 is     *)
(* 15000.  The id and detected_at fields of an opportunity (a fresh uuid,  *)
(* the wall clock) and the mid_price, volume and liquidity of a quote are   *)
(* not read by the detector and are left out.  A DateTime<Utc> is a number *)
(* of ticks of half a second, a Duration a difference of two of them.      *)
(***************************************************************************)
\* enum DexType
DexType == {"Raydium", "Orca", "Jupiter", "Lifinity", "Meteora", "Phoenix"}

\* DexType::fee_percentage: Decimal::new(25, 4) is 0.0025
FeePercentage(dex) ==
    CASE dex = "Raydium" -> 25
      [] dex = "Orca" -> 30
      [] dex = "Jupiter" -> 0
      [] dex = "Lifinity" -> 10
      [] dex = "Meteora" -> 10
      [] dex = "Phoenix" -> 5

\* the trading pairs of the bot (two of the four of main)
TokenPairs == {"SOL/USDC", "RAY/USDC"}

\* bid / ask of the quotes the venues deliver: 99.90/100.00, 101.50/101.60
\* and a transient all-zero quote.  The crossing with a positive spread
\* among them (buy at 100.00, sell at 101.50) has a gross % of exactly 1.5.
Quotes ==
    { [bid |-> 9990, ask |-> 10000],
      [bid |-> 10150, ask |-> 10160],
      [bid |-> 0, ask |-> 0] }

\* values of ArbitrageConfig::min_profit_threshold: 0.005 (the default),
\* 0.95 and 1.4945
Thresholds == {50, 9500, 14945}

\* PriceData::new(dex, pair, bid, ask): the timestamp is Utc::now()
PriceData(dex, pair, q) ==
    [dex |-> dex, pair |-> pair, bid |-> q.bid, ask |-> q.ask, timestamp |-> utc_now]

\* no find_* call has returned since the cache last changed
NoCall == [query |-> "none", result |-> << >>]

\* no write on the cache is under observation
NoCacheCall == [op |-> "none", max_age_seconds |-> 0, prices |-> << >>]

\* ArbitrageDetector::new(config)
DetectorNew ==
    /\ price_cache = [k \in {} |-> 0]
    /\ min_profit_threshold \in Thresholds
    /\ find_call = NoCall
    /\ utc_now = 0
    /\ cache_call = NoCacheCall

\* ArbitrageDetector::default(): the detector as the other specifications hold it
DetectorIdle ==
    /\ price_cache = [k \in {} |-> 0]
    /\ min_profit_threshold = 50
    /\ find_call = NoCall
    /\ utc_now = 0
    /\ cache_call = NoCacheCall

\* variant: a key already cached keeps its quote
InsertedKeepFirst(cache, price) ==
    LET key == << price.pair, price.dex >>
    IN  [k \in (DOMAIN cache) \cup {key} |-> IF k \in DOMAIN cache THEN cache[k] ELSE price]

\* the cache after update_price(price): HashMap::insert under (price.pair, price.dex)
Inserted(cache, price) ==
    LET key == << price.pair, price.dex >>
    IN  [k \in (DOMAIN cache) \cup {key} |-> IF k = key THEN price ELSE cache[k]]

\* the cache after update_prices(prices): for price in prices { update_price(price) }
RECURSIVE InsertedAll(_, _)
InsertedAll(cache, prices) ==
    IF prices = << >> THEN cache
    ELSE InsertedAll(Inserted(cache, Head(prices)), Tail(prices))

\* a call of update_price with a quote of any venue
UpdatePrice ==
    \E pair \in TokenPairs, dex \in DexType, q \in Quotes :
        LET key == << pair, dex >> IN
        /\ key \in DOMAIN price_cache \/ Cardinality(DOMAIN price_cache) < MaxCached
        /\ price_cache' = Inserted(price_cache, PriceData(dex, pair, q))
        /\ find_call' = NoCall
        /\ cache_call' = NoCacheCall
        /\ UNCHANGED << min_profit_threshold, utc_now, cb_vars, trade_vars, loop_vars >>

\* Decimal division, kept to the digits the representation holds (the
\* quotient is cut towards zero)
DecDiv(a, b) == IF a >= 0 THEN a \div b ELSE -((-a) \div b)

\* ((sell_price - buy_price) / buy_price) * Decimal::from(100)
GrossProfitPct(buy_price, sell_price) == DecDiv((sell_price - buy_price) * 1000000, buy_price)

\* net_profit_pct = gross_profit_pct - (buy_fee + sell_fee)
NetProfitPct(buy_from, sell_to) ==
    GrossProfitPct(buy_from.ask, sell_to.bid)
        - (FeePercentage(buy_from.dex) + FeePercentage(sell_to.dex))

\* the ArbitrageOpportunity check_opportunity builds
Opportunity(buy_from, sell_to) ==
    [ pair |-> buy_from.pair,
      buy_dex |-> buy_from.dex,
      sell_dex |-> sell_to.dex,
      buy_price |-> buy_from.ask,
      sell_price |-> sell_to.bid,
      gross_profit_pct |-> GrossProfitPct(buy_from.ask, sell_to.bid),
      net_profit_pct |-> NetProfitPct(buy_from, sell_to) ]

\* variant: an opportunity at the threshold is kept
CheckOpportunityInclusive(buy_from, sell_to) ==
    IF buy_from.ask = 0 \/ sell_to.bid = 0
    THEN << >>
    ELSE IF NetProfitPct(buy_from, sell_to) >= min_profit_threshold
         THEN << Opportunity(buy_from, sell_to) >>
         ELSE << >>

\* variant: the size of the net %, of either sign, is compared with the threshold
CheckOpportunityEitherSign(buy_from, sell_to) ==
    IF buy_from.ask = 0 \/ sell_to.bid = 0
    THEN << >>
    ELSE IF NetProfitPct(buy_from, sell_to) > min_profit_threshold
            \/ -NetProfitPct(buy_from, sell_to) > min_profit_threshold
         THEN << Opportunity(buy_from, sell_to) >>
         ELSE << >>

\* ArbitrageDetector::check_opportunity; the Option is a list of 0 or 1 element
CheckOpportunity(buy_from, sell_to) ==
    IF buy_from.ask = 0 \/ sell_to.bid = 0
    THEN << >>
    ELSE IF NetProfitPct(buy_from, sell_to) > min_profit_threshold
         THEN << Opportunity(buy_from, sell_to) >>
         ELSE << >>

\* the venues find_opportunities looks up, in its order
ScannedDexs == << "Raydium", "Orca", "Jupiter" >>

\* filter_map over the scanned venues: the cached quotes of the pair
CachedPrices(pair) ==
    LET present == SelectSeq(ScannedDexs, LAMBDA d : << pair, d >> \in DOMAIN price_cache)
    IN  [i \in 1..Len(present) |-> price_cache[<< pair, present[i] >>]]

\* for i in 0..len, for j in (i+1)..len: both directions of (prices[i], prices[j])
RECURSIVE ComparePairs(_, _, _)
ComparePairs(prices, i, j) ==
    IF i > Len(prices) THEN << >>
    ELSE IF j > Len(prices) THEN ComparePairs(prices, i + 1, i + 2)
    ELSE CheckOpportunity(prices[i], prices[j])
            \o CheckOpportunity(prices[j], prices[i])
            \o ComparePairs(prices, i, j + 1)

\* variant: opp goes behind the elements with a smaller net %
InsertByNetRising(opp, sorted) ==
    LET k == Cardinality({i \in 1..Len(sorted) : sorted[i].net_profit_pct < opp.net_profit_pct})
    IN  SubSeq(sorted, 1, k) \o << opp >> \o SubSeq(sorted, k + 1, Len(sorted))

\* one step of the stable sort: opp goes behind the elements with a larger net %
InsertByNet(opp, sorted) ==
    LET k == Cardinality({i \in 1..Len(sorted) : sorted[i].net_profit_pct > opp.net_profit_pct})
    IN  SubSeq(sorted, 1, k) \o << opp >> \o SubSeq(sorted, k + 1, Len(sorted))

\* sort_by(|a, b| b.net_profit_pct.cmp(&a.net_profit_pct)): stable, descending
RECURSIVE SortByNet(_)
SortByNet(opps) ==
    IF opps = << >> THEN << >> ELSE InsertByNet(Head(opps), SortByNet(Tail(opps)))

\* ArbitrageDetector::find_opportunities
FindOpportunities(pair) == SortByNet(ComparePairs(CachedPrices(pair), 1, 2))

\* the distinct pairs among the keys of the cache
CachedPairs == {k[1] : k \in DOMAIN price_cache}

\* the orders in which the HashSet of cached pairs can be iterated
PairOrders ==
    {o \in [1..Cardinality(CachedPairs) -> CachedPairs] :
        \A i, j \in DOMAIN o : i # j => o[i] # o[j]}

\* all_opportunities.append(find_opportunities(pair)) for the pairs in iteration order
RECURSIVE AppendAll(_)
AppendAll(order) ==
    IF order = << >> THEN << >>
    ELSE FindOpportunities(Head(order)) \o AppendAll(Tail(order))

\* ArbitrageDetector::find_all_opportunities, for one iteration order of the pairs
FindAllOpportunities(order) == SortByNet(AppendAll(order))

\* a call of find_opportunities(pair)
FindOpportunitiesCall ==
    \E pair \in TokenPairs :
        /\ find_call' = [query |-> pair, result |-> FindOpportunities(pair)]
        /\ cache_call' = NoCacheCall
        /\ UNCHANGED << price_cache, min_profit_threshold, utc_now,
                        cb_vars, trade_vars, loop_vars >>

\* a call of find_all_opportunities()
FindAllOpportunitiesCall ==
    \E order \in PairOrders :
        /\ find_call' = [query |-> "ALL", result |-> FindAllOpportunities(order)]
        /\ cache_call' = NoCacheCall
        /\ UNCHANGED << price_cache, min_profit_threshold, utc_now,
                        cb_vars, trade_vars, loop_vars >>

(***************************************************************************)
(* Writes on the price cache: update_prices and clear_stale_prices         *)
(***************************************************************************)
\* ticks of the wall clock in one second
TicksPerSecond == 2

\* the (pair, venue) keys the price feed writes: two scanned venues a pair
FeedKeys ==
    { << "SOL/USDC", "Raydium" >>, << "SOL/USDC", "Orca" >>,
      << "RAY/USDC", "Raydium" >>, << "RAY/USDC", "Jupiter" >> }

\* the quotes of the feed: those of Quotes with a price
FeedQuotes == {q \in Quotes : q.bid > 0}

\* the vectors a provider hands to update_prices: up to MaxBatch quotes made now
Batches ==
    UNION { [1..n -> {PriceData(k[2], k[1], q) : k \in FeedKeys, q \in FeedQuotes}] :
            n \in 0..MaxBatch }

\* a call of update_prices(prices)
UpdatePrices ==
    \E prices \in Batches :
        /\ price_cache' = InsertedAll(price_cache, prices)
        /\ cache_call' = [op |-> "update_prices", max_age_seconds |-> 0, prices |-> prices]
        /\ find_call' = NoCall
        /\ UNCHANGED << min_profit_threshold, utc_now, cb_vars, trade_vars, loop_vars >>

\* the keys of one pair whose timestamps the staleness specification varies
StaleKeys == {k \in FeedKeys : k[1] = "SOL/USDC"} \cup { << "SOL/USDC", "Jupiter" >> }

\* a call of update_price with a quote whose pub timestamp field the caller
\* set up to MaxSkew ticks ahead of Utc::now() (tests.rs:173 sets it behind)
UpdatePriceStamped ==
    \E key \in StaleKeys, q \in FeedQuotes, skew \in 0..MaxSkew :
        LET price == [PriceData(key[2], key[1], q) EXCEPT !.timestamp = utc_now + skew] IN
        /\ price_cache' = Inserted(price_cache, price)
        /\ cache_call' = NoCacheCall
        /\ find_call' = NoCall
        /\ UNCHANGED << min_profit_threshold, utc_now, cb_vars, trade_vars, loop_vars >>

\* chrono Duration::num_seconds(): the whole seconds, cut towards zero
NumSeconds(duration) ==
    IF duration >= 0 THEN duration \div TicksPerSecond
    ELSE -((-duration) \div TicksPerSecond)

\* variant: a quote of exactly the max age is kept
RetainedInclusive(price, max_age_seconds) ==
    NumSeconds(utc_now - price.timestamp) <= max_age_seconds

\* the retain closure: (now - price.timestamp).num_seconds() < max_age_seconds
Retained(price, max_age_seconds) ==
    NumSeconds(utc_now - price.timestamp) < max_age_seconds

\* the cache after clear_stale_prices(max_age_seconds): HashMap::retain
Cleared(cache, max_age_seconds) ==
    [k \in {key \in DOMAIN cache : Retained(cache[key], max_age_seconds)} |-> cache[k]]

\* a call of clear_stale_prices(max_age_seconds)
ClearStalePrices ==
    \E max_age_seconds \in 0..MaxAge :
        /\ price_cache' = Cleared(price_cache, max_age_seconds)
        /\ cache_call' = [op |-> "clear_stale_prices",
                          max_age_seconds |-> max_age_seconds, prices |-> << >>]
        /\ find_call' = NoCall
        /\ UNCHANGED << min_profit_threshold, utc_now, cb_vars, trade_vars, loop_vars >>

\* half a second passes on the wall clock
TickUtc ==
    /\ utc_now < MaxUtc
    /\ utc_now' = utc_now + 1
    /\ cache_call' = NoCacheCall
    /\ UNCHANGED << price_cache, min_profit_threshold, find_call,
                    cb_vars, trade_vars, loop_vars >>

(***************************************************************************)
(* VolatilityTracker                                                       *)
(*                                                                         *)
(* A Decimal x is represented by the integer x * VolScale, cut towards     *)
(* zero; prices are whole numbers.  The square root goes through f64 in    *)
(* the source and is the root cut to the representation here.  Dividing a  *)
(* Decimal by zero panics.  The tracker record holds the fields, the       *)
(* number of update_price calls per pair, and the last call: its           *)
(* arguments, what it returned, the last price and the volatility of the   *)
(* pair before it, and whether it panicked.                                *)
(***************************************************************************)
VolScale == 10000

\* the pair symbols and the prices fed to the tracker
VolPairs == {"SOL/USDC", "RAY/USDC"}
VolPrices == {0, 1, 2}

\* the window sizes the tracker is built with
Windows == {1, 3}

\* None in volatilities, in last_prices
NoVol == -1
NoPrice == -1

\* Decimal division, cut towards zero
VolDiv(a, b) == IF a >= 0 THEN a \div b ELSE -((-a) \div b)

\* the largest r in lo..hi with r * r <= n, for lo * lo <= n
RECURSIVE RootBetween(_, _, _)
RootBetween(n, lo, hi) ==
    IF lo = hi THEN lo
    ELSE LET mid == (lo + hi + 1) \div 2
         IN  IF mid * mid <= n THEN RootBetween(n, mid, hi) ELSE RootBetween(n, lo, mid - 1)

\* vol_sq_f64.sqrt() back as a Decimal
VolSqrt(vol_sq) == RootBetween(vol_sq * VolScale, 0, 4 * VolScale)

\* variant: lambda = 1 / (N + 1)
DecayHalved(window_size) == VolDiv(VolScale, window_size + 1)

\* VolatilityTracker::new: lambda = 2 / (N + 1)
Decay(window_size) == VolDiv(2 * VolScale, window_size + 1)

\* no call made on the tracker yet
NoVolCall ==
    [ op |-> "new", pair |-> "none", price |-> 0, ret |-> NoVol,
      last_price |-> NoPrice, vol_before |-> NoVol, panicked |-> FALSE ]

\* VolatilityTracker::new(window_size)
TrackerNew(window_size) ==
    [ window_size |-> window_size,
      decay |-> Decay(window_size),
      volatilities |-> [k \in VolPairs |-> NoVol],
      last_prices |-> [k \in VolPairs |-> NoPrice],
      updates |-> [k \in VolPairs |-> 0],
      call |-> NoVolCall ]

\* the bot constructs no VolatilityTracker
NoTracker == << >>

\* the tracker as the other specifications hold it
TrackerIdle == tracker = NoTracker

\* variant: the first observation is treated as a later one
HasLastPriceAlways(last_prices, pair) == TRUE

\* if let Some(&last_price) = self.last_prices.get(pair)
HasLastPrice(last_prices, pair) == last_prices[pair] # NoPrice

\* new_vol_sq of update_price for a last price that is not zero
NewVolSq(decay, last_price, price, vol_before) ==
    LET ret == VolDiv((price - last_price) * VolScale, last_price)
        ret_sq == VolDiv(ret * ret, VolScale)
        current_vol_sq == IF vol_before = NoVol THEN 0
                          ELSE VolDiv(vol_before * vol_before, VolScale)
    IN  VolDiv(decay * ret_sq + (VolScale - decay) * current_vol_sq, VolScale)

\* VolatilityTracker::update_price(pair, price)
VolUpdatePrice ==
    /\ ~tracker.call.panicked
    /\ tracker.updates["SOL/USDC"] + tracker.updates["RAY/USDC"] < MaxUpdates
    /\ \E pair \in VolPairs, price \in VolPrices :
          LET last_price == tracker.last_prices[pair]
              vol_before == tracker.volatilities[pair]
              seen == HasLastPrice(tracker.last_prices, pair)
              panics == seen /\ last_price = 0
              called == [ op |-> "update_price", pair |-> pair, price |-> price,
                          ret |-> NoVol, last_price |-> last_price,
                          vol_before |-> vol_before, panicked |-> panics ]
          IN  tracker' =
                 IF panics
                 THEN [tracker EXCEPT !.updates[pair] = @ + 1, !.call = called]
                 ELSE [tracker EXCEPT
                          !.volatilities[pair] =
                              IF seen
                              THEN VolSqrt(NewVolSq(tracker.decay, last_price, price, vol_before))
                              ELSE @,
                          !.last_prices[pair] = price,
                          !.updates[pair] = @ + 1,
                          !.call = called]
    /\ UNCHANGED << loop_kind, loop_pc, max_price_age_seconds, tasks, locks,
                    cb_vars, det_vars, trade_vars >>

\* VolatilityTracker::get_volatility(pair)
GetVolatility ==
    /\ ~tracker.call.panicked
    /\ \E pair \in VolPairs :
          tracker' = [tracker EXCEPT !.call =
                         [ op |-> "get_volatility", pair |-> pair, price |-> 0,
                           ret |-> tracker.volatilities[pair],
                           last_price |-> tracker.last_prices[pair],
                           vol_before |-> tracker.volatilities[pair],
                           panicked |-> FALSE ]]
    /\ UNCHANGED << loop_kind, loop_pc, max_price_age_seconds, tasks, locks,
                    cb_vars, det_vars, trade_vars >>

(***************************************************************************)
(* Concurrent tasks on one CircuitBreaker                                  *)
(*                                                                         *)
(* Each field of the breaker sits behind its own tokio RwLock.  A task is  *)
(* suspended at a .write().await or .read().await until the lock is free;  *)
(* the code between two await points touches only fields whose guard the   *)
(* task holds, so one step runs from an await point to the next.  A guard  *)
(* bound with let is held to the end of the function, a temporary guard    *)
(* to the end of its statement.  pc names the lock the task awaits.        *)
(***************************************************************************)
\* the tasks that call the breaker, and no task
TaskIds == {1, 2}
NoTask == 0

\* the four RwLocks of the breaker
LockNames == {"state", "consecutive_failures", "consecutive_successes", "last_failure_time"}

\* a task that is not inside a breaker operation and has called none
IdleTask ==
    [ op |-> "none", pc |-> "idle", ret |-> FALSE, done |-> 0,
      pre |-> "none", stamp |-> NoInstant, at |-> 0 ]

\* no task has called the breaker, no guard is alive: tasks maps the tasks
\* that have called to their records, locks the held locks to their holders
TasksIdle ==
    /\ tasks = [t \in {} |-> IdleTask]
    /\ locks = [l \in {} |-> NoTask]

\* the record of task t
TaskOf(t) == IF t \in DOMAIN tasks THEN tasks[t] ELSE IdleTask

\* the holder of lock l, or NoTask
Holder(l) == IF l \in DOMAIN locks THEN locks[l] ELSE NoTask

\* tasks with the record of task t replaced
WithTask(t, record) ==
    [u \in (DOMAIN tasks) \cup {t} |-> IF u = t THEN record ELSE tasks[u]]

\* the thresholds and the timeouts of the breaker the tasks share
TaskThresholds == {1, 2}
TaskTimeouts == {0, 1}

\* CircuitBreaker::new for the breaker the tasks share
TaskBreakerNew ==
    /\ cb_state = "Closed"
    /\ failure_threshold \in TaskThresholds
    /\ success_threshold \in TaskThresholds
    /\ timeout \in TaskTimeouts
    /\ consecutive_failures = 0
    /\ consecutive_successes = 0
    /\ last_failure_time = NoInstant
    /\ now = 0
    /\ cb_call = [op |-> "new", ret |-> TRUE, pre |-> "Closed", pf |-> 0, ps |-> 0]
    /\ fail_run = 0
    /\ succ_run = 0
    /\ last_fail_at = NoInstant

\* what no step of a task changes, the clock apart
task_kept ==
    << failure_threshold, success_threshold, timeout, cb_call, fail_run, succ_run,
       last_fail_at, det_vars, trade_vars, loop_kind, loop_pc, max_price_age_seconds, tracker >>

\* what no step of a task changes
task_frame == << now, task_kept >>

\* time passes between two steps of the tasks
TaskTick ==
    /\ now < MaxTaskTime
    /\ now' = now + 1
    /\ UNCHANGED << tasks, locks, cb_state, consecutive_failures, consecutive_successes,
                    last_failure_time, task_kept >>

\* the locks once task t has dropped all its guards
Released(t) == [l \in {k \in DOMAIN locks : locks[k] # t} |-> locks[l]]

\* the locks once task t has taken lock l
Taken(t, l) == [k \in (DOMAIN locks) \cup {l} |-> IF k = l THEN t ELSE locks[k]]

\* the record of task t once it has returned from its operation
Returned(t) == [TaskOf(t) EXCEPT !.pc = "idle", !.done = @ + 1]

\* the record of task t suspended at the next await point
Awaiting(t, pc) == [TaskOf(t) EXCEPT !.pc = pc]

\* a task calls record_success, record_failure or can_execute
TaskCall ==
    /\ \E t \in TaskIds, op \in {"record_success", "record_failure", "can_execute"} :
          /\ TaskOf(t).pc = "idle"
          /\ TaskOf(t).done < MaxCalls
          /\ tasks' = WithTask(t,
                          [ IdleTask EXCEPT
                               !.op = op,
                               !.done = TaskOf(t).done,
                               !.pc = CASE op = "record_success" -> "rs_successes"
                                        [] op = "record_failure" -> "rf_failures"
                                        [] op = "can_execute" -> "ce_state" ])
    /\ UNCHANGED << locks, cb_state, consecutive_failures, consecutive_successes,
                    last_failure_time, task_frame >>

\* record_success: let mut successes = self.consecutive_successes.write().await
RsSuccesses ==
    /\ \E t \in TaskIds :
          /\ TaskOf(t).pc = "rs_successes"
          /\ Holder("consecutive_successes") = NoTask
          /\ locks' = Taken(t, "consecutive_successes")
          /\ tasks' = WithTask(t, Awaiting(t, "rs_failures"))
    /\ consecutive_successes' = consecutive_successes + 1
    /\ UNCHANGED << cb_state, consecutive_failures, last_failure_time, task_frame >>

\* record_success: let mut failures = self.consecutive_failures.write().await
RsFailures ==
    /\ \E t \in TaskIds :
          /\ TaskOf(t).pc = "rs_failures"
          /\ Holder("consecutive_failures") = NoTask
          /\ IF consecutive_successes >= success_threshold
             THEN /\ locks' = Taken(t, "consecutive_failures")
                  /\ tasks' = WithTask(t, Awaiting(t, "rs_state"))
             ELSE /\ locks' = Released(t)
                  /\ tasks' = WithTask(t, Returned(t))
    /\ consecutive_failures' = 0
    /\ UNCHANGED << cb_state, consecutive_successes, last_failure_time, task_frame >>

\* record_success: let mut state = self.state.write().await
RsState ==
    /\ \E t \in TaskIds :
          /\ TaskOf(t).pc = "rs_state"
          /\ Holder("state") = NoTask
          /\ locks' = Released(t)
          /\ tasks' = WithTask(t, Returned(t))
    /\ cb_state' = IF cb_state = "HalfOpen" THEN "Closed" ELSE cb_state
    /\ UNCHANGED << consecutive_failures, consecutive_successes, last_failure_time, task_frame >>

\* record_failure: let mut failures = self.consecutive_failures.write().await
RfFailures ==
    /\ \E t \in TaskIds :
          /\ TaskOf(t).pc = "rf_failures"
          /\ Holder("consecutive_failures") = NoTask
          /\ locks' = Taken(t, "consecutive_failures")
          /\ tasks' = WithTask(t, Awaiting(t, "rf_successes"))
    /\ consecutive_failures' = consecutive_failures + 1
    /\ UNCHANGED << cb_state, consecutive_successes, last_failure_time, task_frame >>

\* record_failure: let mut successes = self.consecutive_successes.write().await
RfSuccesses ==
    /\ \E t \in TaskIds :
          /\ TaskOf(t).pc = "rf_successes"
          /\ Holder("consecutive_successes") = NoTask
          /\ locks' = Taken(t, "consecutive_successes")
          /\ tasks' = WithTask(t, Awaiting(t, "rf_stamp"))
    /\ consecutive_successes' = 0
    /\ UNCHANGED << cb_state, consecutive_failures, last_failure_time, task_frame >>

\* variant: record_failure does not store the instant
RfStampSkipped ==
    /\ \E t \in TaskIds :
          /\ TaskOf(t).pc = "rf_stamp"
          /\ Holder("last_failure_time") = NoTask
          /\ IF consecutive_failures >= failure_threshold
             THEN /\ locks' = locks
                  /\ tasks' = WithTask(t, Awaiting(t, "rf_state"))
             ELSE /\ locks' = Released(t)
                  /\ tasks' = WithTask(t, Returned(t))
    /\ last_failure_time' = last_failure_time
    /\ UNCHANGED << cb_state, consecutive_failures, consecutive_successes, task_frame >>

\* record_failure: *self.last_failure_time.write().await = Some(Instant::now())
RfStamp ==
    /\ \E t \in TaskIds :
          /\ TaskOf(t).pc = "rf_stamp"
          /\ Holder("last_failure_time") = NoTask
          /\ IF consecutive_failures >= failure_threshold
             THEN /\ locks' = locks
                  /\ tasks' = WithTask(t, Awaiting(t, "rf_state"))
             ELSE /\ locks' = Released(t)
                  /\ tasks' = WithTask(t, Returned(t))
    /\ last_failure_time' = FailureInstant
    /\ UNCHANGED << cb_state, consecutive_failures, consecutive_successes, task_frame >>

\* record_failure: let mut state = self.state.write().await
RfState ==
    /\ \E t \in TaskIds :
          /\ TaskOf(t).pc = "rf_state"
          /\ Holder("state") = NoTask
          /\ locks' = Released(t)
          /\ tasks' = WithTask(t, Returned(t))
    /\ cb_state' = "Open"
    /\ UNCHANGED << consecutive_failures, consecutive_successes, last_failure_time, task_frame >>

\* can_execute: let mut state = self.state.write().await
CeState ==
    /\ \E t \in TaskIds :
          /\ TaskOf(t).pc = "ce_state"
          /\ Holder("state") = NoTask
          /\ IF cb_state = "Open"
             THEN /\ locks' = Taken(t, "state")
                  /\ tasks' = WithTask(t, [Awaiting(t, "ce_read") EXCEPT !.pre = cb_state])
             ELSE /\ locks' = locks
                  /\ tasks' = WithTask(t, [Returned(t) EXCEPT !.pre = cb_state, !.ret = TRUE])
    /\ UNCHANGED << cb_state, consecutive_failures, consecutive_successes,
                    last_failure_time, task_frame >>

\* can_execute in state Open: *self.last_failure_time.read().await
CeRead ==
    /\ \E t \in TaskIds :
          /\ TaskOf(t).pc = "ce_read"
          /\ Holder("last_failure_time") = NoTask
          /\ locks' = Released(t)
          /\ tasks' = WithTask(t, [Returned(t) EXCEPT !.ret = TimeoutElapsed,
                                                      !.stamp = last_failure_time,
                                                      !.at = now])
    /\ cb_state' = IF TimeoutElapsed THEN "HalfOpen" ELSE cb_state
    /\ UNCHANGED << consecutive_failures, consecutive_successes, last_failure_time, task_frame >>

(***************************************************************************)
(* Detection cycle of the bot trading loop and of the collector loop       *)
(*                                                                         *)
(* One task runs the loop and is the only writer of the detector.  Time    *)
(* passes where the loop awaits the network or sleeps: a fetch returns at  *)
(* once or half a second late, a sleep or interval tick lasts 500 ms.      *)
(***************************************************************************)
\* values of Config::max_price_age_seconds: 2 and the default 5
ConfiguredAges == {2, 5}

\* the literal the collector passes to clear_stale_prices
CollectorMaxAge == 5

\* the quote a venue delivers for SOL/USDC: Orca bids above the others' ask
LoopQuote(dex) ==
    IF dex = "Orca" THEN [bid |-> 10150, ask |-> 10160] ELSE [bid |-> 9990, ask |-> 10000]

\* the quotes of the venues that answered, in the order of ScannedDexs
FetchedPrices(delivered) ==
    LET answered == SelectSeq(ScannedDexs, LAMBDA d : d \in delivered)
    IN  [i \in 1..Len(answered) |-> PriceData(answered[i], "SOL/USDC", LoopQuote(answered[i]))]

\* run_trading_loop / the collection loop is entered
LoopStart ==
    /\ loop_kind \in {"bot", "collector"}
    /\ loop_pc = "fetch"
    /\ max_price_age_seconds \in ConfiguredAges
    /\ TrackerIdle
    /\ TasksIdle

\* the pending price fetch takes half a second longer
FetchLate ==
    /\ loop_pc = "fetch"
    /\ utc_now < MaxLoopUtc
    /\ utc_now' = utc_now + 1
    /\ loop_pc' = "fetch_late"
    /\ UNCHANGED << price_cache, min_profit_threshold, find_call, cache_call,
                    loop_kind, max_price_age_seconds,
                        tracker, tasks, locks, cb_vars, trade_vars >>

\* bot collect_prices: the venues that answered deliver, then under one write
\* lock update_prices(prices) and clear_stale_prices(max_price_age_seconds)
CollectPrices ==
    \E delivered \in SUBSET {ScannedDexs[i] : i \in DOMAIN ScannedDexs} :
        /\ loop_kind = "bot"
        /\ loop_pc \in {"fetch", "fetch_late"}
        /\ price_cache' = Cleared(InsertedAll(price_cache, FetchedPrices(delivered)),
                                  max_price_age_seconds)
        /\ cache_call' = [op |-> "clear_stale_prices",
                          max_age_seconds |-> max_price_age_seconds, prices |-> << >>]
        /\ find_call' = NoCall
        /\ loop_pc' = "detect"
        /\ UNCHANGED << min_profit_threshold, utc_now, loop_kind, max_price_age_seconds,
                        tracker, tasks, locks,
                        cb_vars, trade_vars >>

\* collector: for provider in &providers, update_prices(prices) on Ok and a
\* warning on Err
CollectorUpdate ==
    \E delivered \in SUBSET {ScannedDexs[i] : i \in DOMAIN ScannedDexs} :
        /\ loop_kind = "collector"
        /\ loop_pc \in {"fetch", "fetch_late"}
        /\ price_cache' = InsertedAll(price_cache, FetchedPrices(delivered))
        /\ cache_call' = NoCacheCall
        /\ find_call' = NoCall
        /\ loop_pc' = "detect"
        /\ UNCHANGED << min_profit_threshold, utc_now, loop_kind, max_price_age_seconds,
                        tracker, tasks, locks,
                        cb_vars, trade_vars >>

\* both loops: find_all_opportunities() under a read lock
Detect ==
    \E order \in PairOrders :
        /\ loop_pc = "detect"
        /\ find_call' = [query |-> "ALL", result |-> FindAllOpportunities(order)]
        /\ cache_call' = NoCacheCall
        /\ loop_pc' = IF loop_kind = "bot" THEN "sleep" ELSE "clear"
        /\ UNCHANGED << price_cache, min_profit_threshold, utc_now,
                        loop_kind, max_price_age_seconds,
                        tracker, tasks, locks, cb_vars, trade_vars >>

\* collector: clear_stale_prices(5) at the end of the cycle
CollectorClear ==
    /\ loop_kind = "collector"
    /\ loop_pc = "clear"
    /\ price_cache' = Cleared(price_cache, CollectorMaxAge)
    /\ cache_call' = [op |-> "clear_stale_prices",
                      max_age_seconds |-> CollectorMaxAge, prices |-> << >>]
    /\ find_call' = NoCall
    /\ loop_pc' = "tick"
    /\ UNCHANGED << min_profit_threshold, utc_now, loop_kind, max_price_age_seconds,
                        tracker, tasks, locks,
                    cb_vars, trade_vars >>

\* bot: sleep(500 ms) before the next cycle; collector: interval.tick()
LoopSleep ==
    /\ loop_pc = IF loop_kind = "bot" THEN "sleep" ELSE "tick"
    /\ utc_now < MaxLoopUtc
    /\ utc_now' = utc_now + 1
    /\ find_call' = NoCall
    /\ cache_call' = NoCacheCall
    /\ loop_pc' = "fetch"
    /\ UNCHANGED << price_cache, min_profit_threshold, loop_kind, max_price_age_seconds,
                        tracker, tasks, locks,
                    cb_vars, trade_vars >>

(***************************************************************************)
(* Trade step of the bot: execute_trade and the result of Executor::execute *)
(*                                                                         *)
(* The answers of the collaborators (the risk manager's decision, the      *)
(* aggregator, the RPC node, the relay) are inputs of the step.  The flash *)
(* loan quote execute_trade fetches first is only logged and is left out.  *)
(***************************************************************************)
\* the trade sizes a decision carries, in USD
TradeSizes == {1000, 2000}

\* TradeDecision as returned by risk_manager.can_trade
Decisions ==
    [kind : {"Approved", "Reduced"}, size : TradeSizes]
        \cup {[kind |-> "Rejected", size |-> 0]}

\* the answers of the network during one Executor::execute call
ExecEnvs ==
    [ quote : {"ok", "err"},                                \* GET /quote
      swap : {"ok", "send_err", "status_err", "bad_json"},  \* POST /swap
      balance : {"ok", "low", "err"},                       \* check_balance
      submit : {"ok", "err"},                               \* submit_with_retry
      flash : {"ok", "err"} ]                               \* any step of the flash-loan path

\* Result<TradeResult>: Err(e), or Ok with success / signature / error
ExecErr == [ok |-> FALSE, success |-> FALSE, signature |-> "none", error |-> "executor error"]
ExecFailure(reason) == [ok |-> TRUE, success |-> FALSE, signature |-> "none", error |-> reason]
ExecSuccess(sig) == [ok |-> TRUE, success |-> TRUE, signature |-> sig, error |-> "none"]

\* Executor::execute_standard
ExecuteStandard(submit, jito, env) ==
    IF env.quote = "err" THEN ExecFailure("Failed to get quote")
    ELSE IF env.swap = "send_err" THEN ExecErr
    ELSE IF env.swap = "status_err" THEN ExecFailure("Failed to get swap transaction")
    ELSE IF env.swap = "bad_json" THEN ExecErr
    ELSE IF ~submit THEN ExecSuccess("simulated_signature")
    ELSE IF env.balance = "low" THEN ExecFailure("Insufficient SOL balance")
    ELSE IF env.submit = "err" THEN ExecFailure("Submission failed")
    ELSE ExecSuccess(IF jito THEN "bundle_id" ELSE "signature")

\* Executor::execute_with_flash_loan: every failing step returns Err
ExecuteWithFlashLoan(submit, env) ==
    IF env.flash = "err" THEN ExecErr
    ELSE ExecSuccess(IF submit THEN "signature" ELSE "simulated_flash_loan_tx")

\* Executor::execute: flash-loan path above the 1000 USD threshold
Execute(amount_usd, submit, jito, env) ==
    IF flash_loans_enabled /\ amount_usd > 1000
    THEN ExecuteWithFlashLoan(submit, env)
    ELSE ExecuteStandard(submit, jito, env)

\* TradeRecord as HistoryRecorder::record_trade writes it
TradeRecord(size, success, tx_sig, error, is_dry_run) ==
    [ trade_type |-> IF is_dry_run THEN "SIMULATION" ELSE "REAL",
      size_usd |-> size,
      success |-> success,
      tx_signature |-> tx_sig,
      error |-> error ]

\* TradeOutcome; profit is kept as "the estimate" or zero
TradeOutcome(was_successful) ==
    [ was_successful |-> was_successful,
      profit_loss |-> IF was_successful THEN "estimated" ELSE "zero" ]

\* no execute_trade call yet
NoAttempt == [decision |-> "none", size |-> 0, result |-> ExecErr, submit |-> FALSE,
              outcomes |-> << >>, records |-> 0, granted |-> 0, executed |-> FALSE]

(***************************************************************************)
(* Executor::execute call by call                                          *)
(*                                                                         *)
(* The run of one execute call is the list of the calls it makes on its    *)
(* collaborators (aggregator, RPC node, relay, the thread's sleep) and the *)
(* Result it returns.  A call is [call, arg, ok, out]: what is called, the *)
(* argument that matters, whether it succeeded, what it gave back.  The    *)
(* entry of submit_swap_transaction is listed as the call "attempt".       *)
(***************************************************************************)
Call(name, arg, ok, out) == [call |-> name, arg |-> arg, ok |-> ok, out |-> out]

\* ExecutionConfig::default(): priority_fee_micro_lamports
PriorityFee == 50000

\* Option<u64>::None of computeUnitPriceMicroLamports
NoFee == -1

\* let min_balance = 10_000_000 (lamports)
MinBalance == 10000000

\* check_balance returned Err
BalanceErr == -1

\* variant: a balance equal to the reserve is too low
BalanceTooLowInclusive(balance) == balance # BalanceErr /\ balance <= MinBalance

\* if let Ok(balance) = check_balance(..) { if balance < min_balance
BalanceTooLow(balance) == balance # BalanceErr /\ balance < MinBalance

\* how one submit_swap_transaction call fares on the network
AttemptOutcomes == {"ok", "send_err", "blockhash_err", "confirm_err"}

\* the answers of the network during one Executor::execute call, the
\* submission attempts answered one by one
RunEnvs ==
    [ quote : {"ok", "err"},                                \* GET /quote
      swap : {"ok", "send_err", "status_err", "bad_json"},  \* POST /swap
      tx : {"valid", "bad_base64", "bad_bytes"},            \* swapTransaction of the response
      balance : {BalanceErr, 0, MinBalance - 1, MinBalance},  \* check_balance
      attempts : [1..max_retries -> AttemptOutcomes],       \* submit_swap_transaction
      flash : {"ok", "blockhash_err", "build_err", "send_err"} ]  \* the flash-loan steps

\* what a step of a run hands back: the calls made, Ok / Err, the value or the error
Ran(calls, ok, out) == [calls |-> calls, ok |-> ok, out |-> out]

\* Executor::submit_swap_transaction
SubmitSwapTransaction(jito, tx, outcome) ==
    IF tx = "bad_base64" THEN Ran(<< >>, FALSE, "invalid base64")
    ELSE IF tx = "bad_bytes" THEN Ran(<< >>, FALSE, "undeserialisable transaction")
    ELSE LET sign == Call("sign", 0, TRUE, "") IN
         IF jito
         THEN IF outcome = "send_err"
              THEN Ran(<< sign, Call("relay", 1, FALSE, "") >>, FALSE, "relay error")
              ELSE Ran(<< sign, Call("relay", 1, TRUE, "bundle_id") >>, TRUE, "bundle_id")
         ELSE IF outcome = "send_err"
              THEN Ran(<< sign, Call("broadcast", 0, FALSE, "") >>, FALSE, "send error")
              ELSE LET sent == Call("broadcast", 0, TRUE, "signature") IN
                   IF outcome = "blockhash_err"
                   THEN Ran(<< sign, sent, Call("blockhash", 0, FALSE, "") >>,
                            FALSE, "blockhash error")
                   ELSE Ran(<< sign, sent, Call("blockhash", 0, TRUE, ""),
                               Call("confirm", 0, outcome # "confirm_err", "") >>,
                            TRUE, "signature")

\* variant: the delay grows by 500 ms an attempt
BackoffMsLinear(nth) == 500 * (nth + 1)

\* delay_ms = 500 * 2u64.pow(attempt), nth the value of attempt
BackoffMs(nth) == 500 * 2 ^ nth

\* the for loop of submit_with_retry from attempt nth on
RECURSIVE RetryFrom(_, _, _, _)
RetryFrom(jito, env, nth, last_error) ==
    IF nth >= max_retries
    THEN Ran(<< >>, FALSE,
             IF last_error = "" THEN "All retry attempts exhausted" ELSE last_error)
    ELSE LET r == SubmitSwapTransaction(jito, env.tx, env.attempts[nth + 1])
             entry == Call("attempt", nth, r.ok, r.out)
         IN  IF r.ok THEN Ran(<< entry >> \o r.calls, TRUE, r.out)
             ELSE LET rest == RetryFrom(jito, env, nth + 1, r.out)
                  IN  Ran(<< entry >> \o r.calls
                             \o << Call("sleep", BackoffMs(nth), TRUE, "") >>
                             \o rest.calls,
                          rest.ok, rest.out)

\* Executor::submit_with_retry
SubmitWithRetry(jito, env) == RetryFrom(jito, env, 0, "")

\* what a run of execute hands back: the calls made and the Result<TradeResult>
Run(calls, result) == [calls |-> calls, result |-> result]

\* Executor::execute_standard, call by call
StandardRun(amount_usd, submit, jito, env) ==
    LET quote == Call("quote", amount_usd, env.quote = "ok", "")
        swap == Call("swap", IF submit THEN PriorityFee ELSE NoFee, env.swap = "ok", "")
        balance == Call("balance", 0, env.balance # BalanceErr, "")
        sent == SubmitWithRetry(jito, env)
    IN  IF env.quote = "err" THEN Run(<< quote >>, ExecFailure("Failed to get quote"))
        ELSE IF env.swap = "send_err" THEN Run(<< quote, swap >>, ExecErr)
        ELSE IF env.swap = "status_err"
             THEN Run(<< quote, swap >>, ExecFailure("Failed to get swap transaction"))
        ELSE IF env.swap = "bad_json" THEN Run(<< quote, swap >>, ExecErr)
        ELSE IF ~submit THEN Run(<< quote, swap >>, ExecSuccess("simulated_signature"))
        ELSE IF BalanceTooLow(env.balance)
             THEN Run(<< quote, swap, balance >>, ExecFailure("Insufficient SOL balance"))
        ELSE IF sent.ok
             THEN Run(<< quote, swap, balance >> \o sent.calls, ExecSuccess(sent.out))
        ELSE Run(<< quote, swap, balance >> \o sent.calls,
                 ExecFailure("Submission failed: " \o sent.out))

\* Executor::execute_with_flash_loan, call by call: every failing step returns Err
FlashLoanRun(amount_usd, submit, jito, env) ==
    LET quote == Call("quote", amount_usd, env.quote = "ok", "")
        swap == Call("swap", NoFee, env.swap = "ok", "")
        blockhash == Call("blockhash", 0, env.flash # "blockhash_err", "")
        built == << quote, swap, blockhash >>
    IN  IF env.quote = "err" THEN Run(<< quote >>, ExecErr)
        ELSE IF env.swap # "ok" THEN Run(<< quote, swap >>, ExecErr)
        ELSE IF env.tx # "valid" THEN Run(<< quote, swap >>, ExecErr)
        ELSE IF env.flash \in {"blockhash_err", "build_err"} THEN Run(built, ExecErr)
        ELSE IF ~submit THEN Run(built, ExecSuccess("simulated_flash_loan_tx"))
        ELSE IF env.flash = "send_err"
             THEN Run(built \o << Call("broadcast", 0, FALSE, "") >>, ExecErr)
        ELSE Run(built \o << Call("broadcast", 0, TRUE, "signature") >>,
                 ExecSuccess("signature"))

\* variant: the threshold itself takes the flash-loan path
UseFlashLoanInclusive(amount_usd) == flash_loans_enabled /\ amount_usd >= 1000

\* the path Executor::execute takes
UseFlashLoan(amount_usd) == flash_loans_enabled /\ amount_usd > 1000

\* Executor::execute, call by call
ExecuteRun(amount_usd, submit, jito, env) ==
    IF UseFlashLoan(amount_usd)
    THEN FlashLoanRun(amount_usd, submit, jito, env)
    ELSE StandardRun(amount_usd, submit, jito, env)

(***************************************************************************)
(* Executor::extract_instructions_from_tx: the transaction decompiler      *)
(*                                                                         *)
(* The message is what bincode::deserialize hands back: nothing sanitizes  *)
(* its header or its indices.  Indices count from 0 as in the source; the  *)
(* key at index idx of a list is keys[idx + 1].  An outcome is Ok with the *)
(* instruction list, Err with the error text, or a panic of the task.  A   *)
(* subtraction that underflows panics in a build with overflow checks and  *)
(* wraps in a build without.                                               *)
(***************************************************************************)
\* Ok((instructions, _)) / Err(anyhow!(error)) / the thread panicked
DecOk(instructions) == [kind |-> "ok", instructions |-> instructions, error |-> "none"]
DecErr(error) == [kind |-> "err", instructions |-> << >>, error |-> error]
DecPanic == [kind |-> "panic", instructions |-> << >>, error |-> "none"]

\* keys[idx as usize]
KeyAt(keys, idx) == keys[idx + 1]

\* (num_required_signatures - num_readonly_signed_accounts) as usize, u8 wrapped
SignedWritableCount(header) == (header.sig - header.sig_ro) % 256

\* idx < (len - num_readonly_unsigned_accounts as usize), usize wrapped: a
\* wrapped difference is above every index
BelowUnsignedReadonly(header, len, idx) ==
    IF header.unsig_ro > len THEN TRUE ELSE idx < len - header.unsig_ro

\* variant: a signer is writable whatever the header says
StaticIsWritableSigners(header, len, idx) ==
    IF idx < header.sig THEN TRUE ELSE BelowUnsignedReadonly(header, len, idx)

\* the is_writable the V0 branches derive for an index among len static keys
StaticIsWritable(header, len, idx) ==
    IF idx < header.sig
    THEN idx < SignedWritableCount(header)
    ELSE BelowUnsignedReadonly(header, len, idx)

\* the subtraction StaticIsWritable evaluates for the index underflows
StaticUnderflows(header, len, idx) ==
    IF idx < header.sig THEN header.sig_ro > header.sig ELSE header.unsig_ro > len

\* the keys the SDK never lets a legacy message write: builtin programs and sysvars
IsBuiltinKeyOrSysvar(key) == key = "Sysvar"

\* legacy Message::is_key_called_as_program
IsKeyCalledAsProgram(msg, idx) ==
    \E i \in DOMAIN msg.instructions : msg.instructions[i].program_id_index = idx

\* legacy Message::is_upgradeable_loader_present
IsUpgradeableLoaderPresent(msg) ==
    \E i \in DOMAIN msg.account_keys : msg.account_keys[i] = "Loader"

\* legacy Message::is_writable(idx): writable by position, not a builtin key
\* or sysvar, not a program id demoted to readonly
LegacyIsWritable(msg, idx) ==
    /\ \/ idx < SignedWritableCount(msg.header)
       \/ /\ idx >= msg.header.sig
          /\ BelowUnsignedReadonly(msg.header, Len(msg.account_keys), idx)
    /\ ~IsBuiltinKeyOrSysvar(KeyAt(msg.account_keys, idx))
    /\ ~(IsKeyCalledAsProgram(msg, idx) /\ ~IsUpgradeableLoaderPresent(msg))

\* a subtraction legacy Message::is_writable(idx) evaluates underflows
LegacyUnderflows(msg, idx) ==
    \/ msg.header.sig_ro > msg.header.sig
    \/ /\ idx >= SignedWritableCount(msg.header)
       /\ idx >= msg.header.sig
       /\ msg.header.unsig_ro > Len(msg.account_keys)

\* AccountMeta of the legacy branch
LegacyMeta(msg, idx) ==
    [ pubkey |-> KeyAt(msg.account_keys, idx),
      is_signer |-> idx < msg.header.sig,
      is_writable |-> LegacyIsWritable(msg, idx) ]

\* AccountMeta of the V0 branch without lookups
StaticMeta(msg, idx) ==
    [ pubkey |-> KeyAt(msg.account_keys, idx),
      is_signer |-> idx < msg.header.sig,
      is_writable |-> StaticIsWritable(msg.header, Len(msg.account_keys), idx) ]

\* variant: an account index that occurs twice keeps one meta, at its first place
ResolvedDeduplicated(ix, keys, metas) ==
    LET first == SelectSeq([a \in DOMAIN ix.accounts |-> a],
                           LAMBDA a : \A b \in 1..(a - 1) : ix.accounts[b] # ix.accounts[a])
    IN  [ program_id |-> KeyAt(keys, ix.program_id_index),
          accounts |-> [a \in DOMAIN first |-> metas[first[a]]],
          data |-> ix.data ]

\* Instruction { program_id, accounts, data } of one compiled instruction,
\* metas being the collected account metas
Resolved(ix, keys, metas) ==
    [ program_id |-> KeyAt(keys, ix.program_id_index),
      accounts |-> metas,
      data |-> ix.data ]

\* some index of the instruction is outside the key list: the indexing panics
IndexPanics(ix, keys) ==
    \/ ix.program_id_index >= Len(keys)
    \/ \E a \in DOMAIN ix.accounts : ix.accounts[a] >= Len(keys)

\* the indices of a key list
Indices(keys) == 0..(Len(keys) - 1)

\* the map over the instructions, metas[idx] being the account meta derived
\* for index idx and underflowing the indices whose is_writable subtraction
\* underflows: a panic when an index is outside the keys or, with overflow
\* checks, when a subtraction underflows
MapInstructions(msg, keys, checks, metas, underflowing) ==
    IF \E i \in DOMAIN msg.instructions :
          \/ IndexPanics(msg.instructions[i], keys)
          \/ /\ checks
             /\ \E a \in DOMAIN msg.instructions[i].accounts :
                   msg.instructions[i].accounts[a] \in underflowing
    THEN DecPanic
    ELSE DecOk([i \in DOMAIN msg.instructions |->
                  Resolved(msg.instructions[i], keys,
                           [a \in DOMAIN msg.instructions[i].accounts |->
                               metas[msg.instructions[i].accounts[a]]])])

\* the VersionedMessage::Legacy branch
DecompileLegacy(msg, checks) ==
    MapInstructions(msg, msg.account_keys, checks,
                    [idx \in Indices(msg.account_keys) |-> LegacyMeta(msg, idx)],
                    { idx \in Indices(msg.account_keys) : LegacyUnderflows(msg, idx) })

\* the VersionedMessage::V0 branch with address_table_lookups empty
DecompileStatic(msg, checks) ==
    MapInstructions(msg, msg.account_keys, checks,
                    [idx \in Indices(msg.account_keys) |-> StaticMeta(msg, idx)],
                    { idx \in Indices(msg.account_keys) :
                         StaticUnderflows(msg.header, Len(msg.account_keys), idx) })

\* the address lookup tables on chain: key and addresses
AddressTables ==
    << [key |-> "T1", addresses |-> << "T1a", "T1b" >>],
       [key |-> "T2", addresses |-> << "T2a", "T2b" >>] >>

\* what self.alt_manager and alt_manager.get_tables(..) can give: no manager
\* configured, a failed fetch, the tables asked for, or fewer of them
ResolverAnswers ==
    { [configured |-> FALSE, fetched |-> TRUE, tables |-> << >>],
      [configured |-> TRUE, fetched |-> FALSE, tables |-> << >>],
      [configured |-> TRUE, fetched |-> TRUE, tables |-> AddressTables],
      [configured |-> TRUE, fetched |-> TRUE, tables |-> << AddressTables[1] >>] }

\* tables.iter().find(|t| t.key == key)
HasTable(tables, key) == \E t \in DOMAIN tables : tables[t].key = key
FindTable(tables, key) ==
    tables[CHOOSE t \in DOMAIN tables :
              /\ tables[t].key = key
              /\ \A u \in 1..(t - 1) : tables[u].key # key]

\* the first index of the list that is outside a table of len addresses, or -1
FirstOutOfBounds(indexes, len) ==
    IF \E i \in DOMAIN indexes : indexes[i] >= len
    THEN indexes[CHOOSE i \in DOMAIN indexes :
                    /\ indexes[i] >= len
                    /\ \A j \in 1..(i - 1) : indexes[j] < len]
    ELSE -1

\* variant: only a missing table is an error, an index outside a table is skipped
LookupErrorMissingOnly(lookup, tables) ==
    IF ~HasTable(tables, lookup.account_key)
    THEN "Missing lookup table: " \o lookup.account_key
    ELSE "none"

\* the error the loop body returns for one lookup, or "none"
LookupError(lookup, tables) ==
    IF ~HasTable(tables, lookup.account_key)
    THEN "Missing lookup table: " \o lookup.account_key
    ELSE LET len == Len(FindTable(tables, lookup.account_key).addresses)
             w == FirstOutOfBounds(lookup.writable_indexes, len)
             r == FirstOutOfBounds(lookup.readonly_indexes, len)
         IN  IF w # -1
             THEN "Lookup index " \o ToString(w) \o " out of bounds for table "
                     \o lookup.account_key
             ELSE IF r # -1
             THEN "Lookup index " \o ToString(r) \o " out of bounds for table "
                     \o lookup.account_key
             ELSE "none"

\* the addresses pushed for the indexes of one lookup, in index order: the
\* push is under idx < table.addresses.len()
Selected(lookup, tables, indexes) ==
    LET addresses == FindTable(tables, lookup.account_key).addresses
        inside == SelectSeq(indexes, LAMBDA idx : idx < Len(addresses))
    IN  [i \in DOMAIN inside |-> KeyAt(addresses, inside[i])]

\* loaded_writable after the loop over the lookups
RECURSIVE LoadedWritable(_, _)
LoadedWritable(lookups, tables) ==
    IF lookups = << >> THEN << >>
    ELSE Selected(Head(lookups), tables, Head(lookups).writable_indexes)
            \o LoadedWritable(Tail(lookups), tables)

\* loaded_readonly after the loop over the lookups
RECURSIVE LoadedReadonly(_, _)
LoadedReadonly(lookups, tables) ==
    IF lookups = << >> THEN << >>
    ELSE Selected(Head(lookups), tables, Head(lookups).readonly_indexes)
            \o LoadedReadonly(Tail(lookups), tables)

\* the error of the first lookup that has one, or "none"
RECURSIVE FirstLookupError(_, _)
FirstLookupError(lookups, tables) ==
    IF lookups = << >> THEN "none"
    ELSE IF LookupError(Head(lookups), tables) # "none"
    THEN LookupError(Head(lookups), tables)
    ELSE FirstLookupError(Tail(lookups), tables)

\* variant: static keys, then loaded readonly, then loaded writable
FullKeysReadonlyFirst(msg, tables) ==
    msg.account_keys \o LoadedReadonly(msg.address_table_lookups, tables)
                     \o LoadedWritable(msg.address_table_lookups, tables)

\* full_keys: static keys, then loaded writable, then loaded readonly
FullKeys(msg, tables) ==
    msg.account_keys \o LoadedWritable(msg.address_table_lookups, tables)
                     \o LoadedReadonly(msg.address_table_lookups, tables)

\* variant: a loaded index is writable up to and including the last writable one
LoadedIsWritableInclusive(header, static_len, writable_len, idx) ==
    IF idx < static_len
    THEN StaticIsWritable(header, static_len, idx)
    ELSE idx <= static_len + writable_len

\* is_writable of the V0 branch with lookups
LoadedIsWritable(header, static_len, writable_len, idx) ==
    IF idx < static_len
    THEN StaticIsWritable(header, static_len, idx)
    ELSE idx < static_len + writable_len

\* AccountMeta of the V0 branch with lookups
LoadedMeta(msg, tables, idx) ==
    [ pubkey |-> KeyAt(FullKeys(msg, tables), idx),
      is_signer |-> idx < msg.header.sig,
      is_writable |-> LoadedIsWritable(msg.header, Len(msg.account_keys),
                          Len(LoadedWritable(msg.address_table_lookups, tables)), idx) ]

\* the VersionedMessage::V0 branch with address_table_lookups not empty
DecompileLoaded(msg, resolver, checks) ==
    IF ~resolver.configured
    THEN DecErr("ALTs required but AltManager not configured")
    ELSE IF ~resolver.fetched
    THEN DecErr("get_tables failed")
    ELSE IF FirstLookupError(msg.address_table_lookups, resolver.tables) # "none"
    THEN DecErr(FirstLookupError(msg.address_table_lookups, resolver.tables))
    ELSE MapInstructions(msg, FullKeys(msg, resolver.tables), checks,
             [idx \in Indices(FullKeys(msg, resolver.tables)) |->
                 LoadedMeta(msg, resolver.tables, idx)],
             { idx \in Indices(msg.account_keys) :
                  StaticUnderflows(msg.header, Len(msg.account_keys), idx) })

\* extract_instructions_from_tx on a transaction that decoded to msg
Decompile(msg, resolver, checks) ==
    IF msg.version = "legacy" THEN DecompileLegacy(msg, checks)
    ELSE IF msg.address_table_lookups = << >> THEN DecompileStatic(msg, checks)
    ELSE DecompileLoaded(msg, resolver, checks)

\* MessageHeader: the three u8 counts
Headers == [sig : 0..MaxHeader, sig_ro : 0..MaxHeader, unsig_ro : 0..MaxHeader]

\* static account key lists: plain keys, a sysvar, the upgradeable loader
StaticKeyLists ==
    { << "Payer" >>, << "Payer", "Pool" >>,
      << "Payer", "Pool", "Sysvar" >>, << "Payer", "Pool", "Loader" >> }

\* account index lists of a compiled instruction, duplicates allowed
RECURSIVE IndexLists(_)
IndexLists(len) ==
    IF len = 0 THEN { << >> }
    ELSE IndexLists(len - 1) \cup
         { Append(l, i) : l \in { k \in IndexLists(len - 1) : Len(k) = len - 1 },
                          i \in 0..MaxIndex }

\* CompiledInstruction { program_id_index, accounts, data } with at most one
\* account index and either data
ShortInstructions ==
    [ program_id_index : 0..MaxIndex, accounts : IndexLists(1),
      data : { << 1 >>, << 2, 3 >> } ]

\* CompiledInstruction { program_id_index, accounts, data }
CompiledInstructions ==
    ShortInstructions \cup
    [ program_id_index : 0..MaxIndex, accounts : IndexLists(MaxAccounts), data : { << 1 >> } ]

\* instruction lists of a message: one instruction, or one followed by a second
InstructionLists ==
    { << ix >> : ix \in CompiledInstructions } \cup
    { << ix, [program_id_index |-> 1, accounts |-> << 0, 0 >>, data |-> << 4 >>] >> :
         ix \in ShortInstructions }

\* messages without lookups, legacy and V0
StaticMessages ==
    [ version : {"legacy", "v0"}, header : Headers, account_keys : StaticKeyLists,
      instructions : InstructionLists, address_table_lookups : { << >> } ]

\* MessageAddressTableLookup { account_key, writable_indexes, readonly_indexes }
Lookups ==
    [ account_key : {"T1", "T2"},
      writable_indexes : { << >>, << 0 >>, << 2 >>, << 1, 0 >> },
      readonly_indexes : { << >>, << 1 >>, << 2 >> } ]

\* lookup lists of a message: one lookup, or one followed by a second
LookupLists ==
    { << l >> : l \in Lookups } \cup
    { << l, m >> : l \in Lookups,
         m \in { [account_key |-> "T2", writable_indexes |-> << 1 >>, readonly_indexes |-> << 0 >>],
                 [account_key |-> "T1", writable_indexes |-> << 0 >>, readonly_indexes |-> << >>] } }

\* headers of the messages with lookups: well formed, more signers than
\* static keys, more readonly signers than signers
LoadedHeaders ==
    { [sig |-> 1, sig_ro |-> 0, unsig_ro |-> 0], [sig |-> 1, sig_ro |-> 0, unsig_ro |-> 1],
      [sig |-> 2, sig_ro |-> 1, unsig_ro |-> 1], [sig |-> 2, sig_ro |-> 0, unsig_ro |-> 0],
      [sig |-> 1, sig_ro |-> 2, unsig_ro |-> 0] }

\* V0 messages with lookups
LoadedMessages ==
    [ version : {"v0"}, header : LoadedHeaders,
      account_keys : { << "Payer" >>, << "Payer", "Pool" >> },
      instructions : { << [program_id_index |-> 0, accounts |-> a, data |-> << 1 >>] >> :
                          a \in IndexLists(MaxAccounts) \ { << >> } },
      address_table_lookups : LookupLists ]

\* no extract_instructions_from_tx call observed
NoDecompile ==
    [ called |-> FALSE, checks |-> FALSE,
      msg |-> [version |-> "legacy", header |-> [sig |-> 0, sig_ro |-> 0, unsig_ro |-> 0],
               account_keys |-> << >>, instructions |-> << >>,
               address_table_lookups |-> << >>],
      resolver |-> [configured |-> FALSE, fetched |-> TRUE, tables |-> << >>],
      result |-> DecErr("none") ]

\* one call on a transaction without lookups; the resolver is not consulted
DecompileStaticCall ==
    /\ ~dec_call.called
    /\ \E msg \in StaticMessages, checks \in BOOLEAN :
          dec_call' = [ called |-> TRUE, checks |-> checks, msg |-> msg,
                        resolver |-> NoDecompile.resolver,
                        result |-> Decompile(msg, NoDecompile.resolver, checks) ]
    /\ UNCHANGED << dry_run, flash_loans_enabled, jito_configured, trades_attempted,
                    trades_successful, trades_failed, risk_outcomes, history, attempt,
                    max_retries, exec_call, cycle, cb_vars, det_vars, loop_vars >>

\* one call on a V0 transaction with lookups
DecompileLookupCall ==
    /\ ~dec_call.called
    /\ \E msg \in LoadedMessages, resolver \in ResolverAnswers, checks \in BOOLEAN :
          dec_call' = [ called |-> TRUE, checks |-> checks, msg |-> msg,
                        resolver |-> resolver,
                        result |-> Decompile(msg, resolver, checks) ]
    /\ UNCHANGED << dry_run, flash_loans_enabled, jito_configured, trades_attempted,
                    trades_successful, trades_failed, risk_outcomes, history, attempt,
                    max_retries, exec_call, cycle, cb_vars, det_vars, loop_vars >>

(***************************************************************************)
(* run_trading_loop and execute_trade as one task                          *)
(*                                                                         *)
(* The loop is a single async task: main awaits run_trading_loop, the loop *)
(* awaits execute_trade, execute_trade awaits Executor::execute, and the   *)
(* backoff waits of submit_with_retry are inside that call.  cycle.pc is   *)
(* the await point the task stands at.  is_running is set at construction  *)
(* only, so the loop never breaks; collect_prices returns Ok on every      *)
(* path, so the Err arm of its match is never taken.  A panic inside the   *)
(* awaited calls unwinds through execute_trade, run_trading_loop and main: *)
(* the task is over.                                                       *)
(***************************************************************************)
\* run_trading_loop entered: tick = 0, top of the loop; candidates is the
\* gathered list of the cycle, each opportunity by its net %, considered the
\* net % of the opportunity the for loop visited last
LoopEntered ==
    [ pc |-> "scan", tick |-> 0, opportunities |-> 0, visited |-> 0,
      passed |-> 0, executing |-> 0, nth |-> 0, finished |-> 0,
      flash |-> FALSE, last |-> "none", candidates |-> << >>, considered |-> 0 ]

\* net % of the opportunities find_all_opportunities returns: 0.95, 1.4945
DetectorNets == {9500, 14945}

\* net % of the synthetic opportunity: Decimal::new(profit_basis, 2) for a
\* profit_basis of 50..450; 0.50 and 4.49 stand for the range
SyntheticNets == {5000, 44900}

\* net % of the opportunities a strategy returns
StrategyNets == {20000}

\* the lists find_all_opportunities can return: sorted by net %, descending
DetectedLists ==
    { nets \in UNION {[1..n -> DetectorNets] : n \in 0..MaxOpportunities} :
        \A i \in 1..(Len(nets) - 1) : nets[i] >= nets[i + 1] }

\* the synthetic opportunity pushed in dry-run mode, four times out of five
SyntheticLists(dry) ==
    IF dry THEN {<< >>} \cup {<< net >> : net \in SyntheticNets} ELSE {<< >>}

\* what the strategies return, in the order of state.strategies
StrategyLists == {<< >>} \cup {<< net >> : net \in StrategyNets}

\* opps: find_all_opportunities, then push(synthetic_opp), then extend(strategy_opps)
Gathered(detected, synthetic, strategy) == detected \o synthetic \o strategy

\* the swap transactions the aggregator may answer with on the flash-loan
\* path: one whose indices are inside its key list, one with an account index
\* outside it
SwapTransactions ==
    { [ version |-> "legacy", header |-> [sig |-> 1, sig_ro |-> 0, unsig_ro |-> 0],
        account_keys |-> << "Payer", "Pool" >>,
        instructions |-> << [program_id_index |-> 1, accounts |-> accounts, data |-> << 1 >>] >>,
        address_table_lookups |-> << >> ] : accounts \in { << 0 >>, << 2 >> } }

\* how Executor::execute can end as seen by execute_trade: Ok(TradeResult)
\* with success true or false, or Err
ExecuteResults == {"success", "failure", "err"}

\* variant: the for loop visits every opportunity of the list
VisitedAll(opportunities) == opportunities

\* opportunities.iter().take(1): how many opportunities the for loop visits
Visited(opportunities) == IF opportunities < 1 THEN opportunities ELSE 1

\* top of the loop to the for loop: tick += 1, collect_prices, detection
ScanMarkets ==
    /\ cycle.pc = "scan"
    /\ cycle.tick < MaxTicks
    /\ \E detected \in DetectedLists, synthetic \in SyntheticLists(dry_run),
          strategy \in StrategyLists :
          LET opps == Gathered(detected, synthetic, strategy)
          IN  cycle' = [cycle EXCEPT !.tick = @ + 1, !.opportunities = Len(opps),
                                     !.candidates = opps, !.considered = 0,
                                     !.visited = 0, !.passed = 0, !.pc = "select"]
    /\ UNCHANGED << dry_run, flash_loans_enabled, jito_configured, trades_attempted,
                    trades_successful, trades_failed, risk_outcomes, history, attempt,
                    max_retries, exec_call, dec_call, cb_vars, det_vars, loop_vars >>

\* one turn of the for loop: should_execute from the profit threshold and the
\* risk manager; if set, execute_trade is called and awaited
SelectOpportunity ==
    /\ cycle.pc = "select"
    /\ cycle.visited < Visited(cycle.opportunities)
    /\ \E should_execute \in BOOLEAN :
          cycle' = IF should_execute
                   THEN [cycle EXCEPT !.visited = @ + 1, !.passed = @ + 1, !.pc = "trade",
                                      !.considered = cycle.candidates[cycle.visited + 1]]
                   ELSE [cycle EXCEPT !.visited = @ + 1,
                                      !.considered = cycle.candidates[cycle.visited + 1]]
    /\ UNCHANGED << dry_run, flash_loans_enabled, jito_configured, trades_attempted,
                    trades_successful, trades_failed, risk_outcomes, history, attempt,
                    max_retries, exec_call, dec_call, cb_vars, det_vars, loop_vars >>

\* execute_trade up to its Executor::execute call: a Rejected decision
\* returns, any other enters the call
EnterExecute ==
    /\ cycle.pc = "trade"
    /\ \E rejected \in BOOLEAN, size \in TradeSizes :
          cycle' = IF rejected
                   THEN [cycle EXCEPT !.pc = "select", !.last = "rejected"]
                   ELSE [cycle EXCEPT !.pc = "executing", !.executing = @ + 1, !.nth = 0,
                                      !.flash = UseFlashLoan(size)]
    /\ UNCHANGED << dry_run, flash_loans_enabled, jito_configured, trades_attempted,
                    trades_successful, trades_failed, risk_outcomes, history, attempt,
                    max_retries, exec_call, dec_call, cb_vars, det_vars, loop_vars >>

\* inside Executor::execute: a failed submission attempt and its backoff wait
RetryWait ==
    /\ cycle.pc = "executing"
    /\ cycle.nth < max_retries
    /\ cycle' = [cycle EXCEPT !.nth = @ + 1]
    /\ UNCHANGED << dry_run, flash_loans_enabled, jito_configured, trades_attempted,
                    trades_successful, trades_failed, risk_outcomes, history, attempt,
                    max_retries, exec_call, dec_call, cb_vars, det_vars, loop_vars >>

\* Executor::execute returns, execute_trade records the outcome and returns
\* to the for loop
LeaveExecute ==
    /\ cycle.pc = "executing"
    /\ \E result \in ExecuteResults :
          cycle' = [cycle EXCEPT !.pc = "select", !.executing = @ - 1,
                                 !.finished = cycle.tick, !.last = result]
    /\ UNCHANGED << dry_run, flash_loans_enabled, jito_configured, trades_attempted,
                    trades_successful, trades_failed, risk_outcomes, history, attempt,
                    max_retries, exec_call, dec_call, cb_vars, det_vars, loop_vars >>

\* inside Executor::execute on the flash-loan path: the decompiler panics on
\* the swap transaction, and the panic ends the loop task
ExecutePanics ==
    /\ cycle.pc = "executing"
    /\ cycle.flash
    /\ \E msg \in SwapTransactions, checks \in BOOLEAN :
          Decompile(msg, NoDecompile.resolver, checks).kind = "panic"
    /\ cycle' = [cycle EXCEPT !.pc = "terminated", !.executing = @ - 1, !.last = "panic"]
    /\ UNCHANGED << dry_run, flash_loans_enabled, jito_configured, trades_attempted,
                    trades_successful, trades_failed, risk_outcomes, history, attempt,
                    max_retries, exec_call, dec_call, cb_vars, det_vars, loop_vars >>

\* the for loop is over: balance metric, the 500 ms sleep, the next cycle
SleepCycle ==
    /\ cycle.pc = "select"
    /\ cycle.visited >= Visited(cycle.opportunities)
    /\ cycle' = [cycle EXCEPT !.pc = "scan"]
    /\ UNCHANGED << dry_run, flash_loans_enabled, jito_configured, trades_attempted,
                    trades_successful, trades_failed, risk_outcomes, history, attempt,
                    max_retries, exec_call, dec_call, cb_vars, det_vars, loop_vars >>

\* no Executor::execute call observed
NoExec ==
    [ path |-> "none", amount_usd |-> 0, submit |-> FALSE, jito |-> FALSE,
      env |-> [quote |-> "ok", swap |-> "ok", tx |-> "valid", balance |-> MinBalance,
               attempts |-> << >>, flash |-> "ok"],
      calls |-> << >>, result |-> ExecErr ]

\* Executor::with_config: the executor of the call-by-call specification
ExecutorNew ==
    /\ dry_run = TRUE
    /\ flash_loans_enabled \in BOOLEAN
    /\ jito_configured = FALSE
    /\ trades_attempted = 0
    /\ trades_successful = 0
    /\ trades_failed = 0
    /\ risk_outcomes = << >>
    /\ history = << >>
    /\ max_retries \in 0..MaxRetries
    /\ exec_call = NoExec
    /\ dec_call = NoDecompile
    /\ cycle = LoopEntered

\* a call of Executor::execute; the executor keeps nothing from one call to
\* the next, one call is observed
ExecuteCall ==
    /\ exec_call = NoExec
    /\ \E amount_usd \in TradeSizes, submit \in BOOLEAN, jito \in BOOLEAN, env \in RunEnvs :
        LET run == ExecuteRun(amount_usd, submit, jito, env) IN
        /\ exec_call' =
              [ path |-> IF UseFlashLoan(amount_usd) THEN "flash_loan" ELSE "standard",
                amount_usd |-> amount_usd, submit |-> submit, jito |-> jito,
                env |-> env, calls |-> run.calls, result |-> run.result ]
        /\ UNCHANGED << dry_run, flash_loans_enabled, jito_configured,
                        trades_attempted, trades_successful, trades_failed,
                        risk_outcomes, history, attempt, max_retries, dec_call,
                        cycle, cb_vars, det_vars, loop_vars >>

\* ExecutionConfig::default(): max_retries is 3
DefaultMaxRetries == 3

\* BotState::new and Executor::with_config
BotNew ==
    /\ max_retries = DefaultMaxRetries
    /\ exec_call = NoExec
    /\ dec_call = NoDecompile
    /\ cycle = LoopEntered
    /\ dry_run \in BOOLEAN
    /\ flash_loans_enabled \in BOOLEAN
    /\ jito_configured \in BOOLEAN
    /\ trades_attempted = 0
    /\ trades_successful = 0
    /\ trades_failed = 0
    /\ risk_outcomes = << >>
    /\ history = << >>
    /\ attempt = NoAttempt

\* the bot as the other specifications hold it: dry run, nothing traded
BotIdle ==
    /\ BotNew
    /\ dry_run = TRUE
    /\ flash_loans_enabled = FALSE
    /\ jito_configured = FALSE

\* the TradeOutcome values one execute_trade call passes to record_trade
OutcomesRecorded(is_dry_run, result) ==
    IF is_dry_run THEN << TradeOutcome(TRUE) >>
    ELSE IF result.ok /\ result.success THEN << TradeOutcome(TRUE) >>
    ELSE IF result.ok THEN << >>
    ELSE << TradeOutcome(FALSE) >>

\* the TradeRecord one execute_trade call appends
RecordAppended(is_dry_run, size, result) ==
    IF is_dry_run THEN TradeRecord(size, TRUE, "none", "none", TRUE)
    ELSE IF result.ok /\ result.success
         THEN TradeRecord(size, TRUE, result.signature, "none", FALSE)
    ELSE TradeRecord(size, FALSE, "none", result.error, FALSE)

\* variant: the largest size, whatever size the decision grants
SizeOfLargest(decision) == 2000

\* let size = match decision { Approved { size } => size,
\*                             Reduced { new_size, .. } => new_size }
SizeOf(decision) == decision.size

\* the history after HistoryRecorder::record_trade: the line is appended when
\* the file opens and the write succeeds; a failure is printed and dropped
Recorded(lines, record, written) ==
    IF written THEN Append(lines, record) ELSE lines

\* execute_trade.  Decision Rejected: return before anything is recorded.
\* Decision Approved or Reduced: the attempt is counted, the executor runs
\* (submit = not dry_run, the relay client only when live), the history line
\* is appended and the outcome is passed to risk_manager.record_trade.
ExecuteTrade ==
    \E decision \in Decisions, env \in ExecEnvs, written \in BOOLEAN :
        LET submit == ~dry_run
            size == SizeOf(decision)
            result == Execute(size, submit, submit /\ jito_configured, env)
            outcomes == OutcomesRecorded(dry_run, result)
        IN
        IF decision.kind = "Rejected"
        THEN /\ attempt' = [decision |-> "Rejected", size |-> 0, result |-> ExecErr,
                            submit |-> FALSE, outcomes |-> << >>, records |-> 0,
                            granted |-> 0, executed |-> FALSE]
             /\ UNCHANGED << dry_run, flash_loans_enabled, jito_configured,
                             trades_attempted, trades_successful, trades_failed,
                             risk_outcomes, history, cb_vars, det_vars, loop_vars,
                             max_retries, exec_call, dec_call, cycle >>
        ELSE /\ trades_attempted < MaxTrades
             /\ trades_attempted' = trades_attempted + 1
             /\ trades_successful' =
                   IF ~dry_run /\ result.ok /\ result.success
                   THEN trades_successful + 1 ELSE trades_successful
             /\ trades_failed' =
                   IF ~dry_run /\ ~(result.ok /\ result.success)
                   THEN trades_failed + 1 ELSE trades_failed
             /\ history' = Recorded(history, RecordAppended(dry_run, size, result), written)
             /\ risk_outcomes' = risk_outcomes \o outcomes
             /\ attempt' = [decision |-> decision.kind, size |-> size,
                            result |-> result, submit |-> submit,
                            outcomes |-> outcomes, records |-> IF written THEN 1 ELSE 0,
                            granted |-> decision.size, executed |-> TRUE]
             /\ UNCHANGED << dry_run, flash_loans_enabled, jito_configured,
                             cb_vars, det_vars, loop_vars,
                             max_retries, exec_call, dec_call, cycle >>

(***************************************************************************)
(* Specifications                                                          *)
(***************************************************************************)
\* the breaker as the other specifications hold it: CircuitBreaker::new(1, 1, 0)
BreakerIdle ==
    /\ BreakerNew
    /\ failure_threshold = 1
    /\ success_threshold = 1
    /\ timeout = 0

\* no detection loop runs; Config::default() has max_price_age_seconds 5
LoopIdle ==
    /\ loop_kind = "none"
    /\ loop_pc = "idle"
    /\ max_price_age_seconds = 5
    /\ TrackerIdle
    /\ TasksIdle

NextBreaker == RecordSuccess \/ RecordFailure \/ CanExecute \/ Tick

InitBreaker == BreakerNew /\ DetectorIdle /\ BotIdle /\ LoopIdle

SpecBreaker == InitBreaker /\ [][NextBreaker]_vars

NextDetector == UpdatePrice \/ FindOpportunitiesCall \/ FindAllOpportunitiesCall

InitDetector == DetectorNew /\ BreakerIdle /\ BotIdle /\ LoopIdle

SpecDetector == InitDetector /\ [][NextDetector]_vars

NextFeed == UpdatePrices \/ FindOpportunitiesCall \/ FindAllOpportunitiesCall

InitFeed == DetectorIdle /\ BreakerIdle /\ BotIdle /\ LoopIdle

SpecFeed == InitFeed /\ [][NextFeed]_vars

NextStale == UpdatePriceStamped \/ ClearStalePrices \/ TickUtc

InitStale == DetectorIdle /\ BreakerIdle /\ BotIdle /\ LoopIdle

SpecStale == InitStale /\ [][NextStale]_vars

NextLoops ==
    FetchLate \/ CollectPrices \/ CollectorUpdate \/ Detect \/ CollectorClear \/ LoopSleep

InitLoops == LoopStart /\ DetectorIdle /\ BreakerIdle /\ BotIdle

SpecLoops == InitLoops /\ [][NextLoops]_vars

NextExec == ExecuteCall

InitExec == ExecutorNew /\ attempt = NoAttempt /\ BreakerIdle /\ DetectorIdle /\ LoopIdle

SpecExec == InitExec /\ [][NextExec]_vars

NextDecompile == DecompileStaticCall \/ DecompileLookupCall
InitDecompile == BreakerIdle /\ DetectorIdle /\ LoopIdle /\ BotIdle
SpecDecompile == InitDecompile /\ [][NextDecompile]_vars

NextTrading ==
    \/ ScanMarkets
    \/ SelectOpportunity
    \/ EnterExecute
    \/ RetryWait
    \/ LeaveExecute
    \/ ExecutePanics
    \/ SleepCycle
InitTrading == BreakerIdle /\ DetectorIdle /\ LoopIdle /\ BotNew
SpecTrading == InitTrading /\ [][NextTrading]_vars

\* no detection loop runs and no task is inside the breaker
LoopOff ==
    /\ loop_kind = "none"
    /\ loop_pc = "idle"
    /\ max_price_age_seconds = 5
    /\ TasksIdle

NextVolatility == VolUpdatePrice \/ GetVolatility
InitVolatility ==
    /\ BreakerIdle /\ DetectorIdle /\ BotIdle /\ LoopOff
    /\ \E window_size \in Windows : tracker = TrackerNew(window_size)
SpecVolatility == InitVolatility /\ [][NextVolatility]_vars

NextTasks ==
    \/ TaskCall
    \/ RsSuccesses \/ RsFailures \/ RsState
    \/ RfFailures \/ RfSuccesses \/ RfStamp \/ RfState
    \/ CeState \/ CeRead
    \/ TaskTick
InitTasks == TaskBreakerNew /\ DetectorIdle /\ BotIdle /\ LoopIdle
SpecTasks == InitTasks /\ [][NextTasks]_vars

NextTrade == ExecuteTrade

InitTrade == BotNew /\ BreakerIdle /\ DetectorIdle /\ LoopIdle

SpecTrade == InitTrade /\ [][NextTrade]_vars

(***************************************************************************)
(* Properties of the circuit breaker                                       *)
(***************************************************************************)
\* the step is a completed record_failure / record_success / can_execute call
IsFailureCall == fail_run' = fail_run + 1
IsSuccessCall == succ_run' = succ_run + 1
IsCanExecuteCall ==
    /\ cb_call'.op = "can_execute"
    /\ now' = now
    /\ fail_run' = fail_run
    /\ succ_run' = succ_run

\* C1: once failure_threshold consecutive failures were recorded (no success
\* since), a can_execute call returns false while less than timeout has
\* elapsed since the last recorded failure, and a can_execute call made once
\* timeout has elapsed returns true with the breaker HalfOpen after it.
C1_BlockedUntilTimeout ==
    [][(IsCanExecuteCall /\ fail_run >= failure_threshold) =>
          IF now - last_fail_at < timeout
          THEN cb_call'.ret = FALSE /\ cb_state' = "Open"
          ELSE cb_call'.ret = TRUE /\ cb_state' = "HalfOpen"]_vars

\* C1 witness: after a blocked phase (timeout >= 1) the poll made at the
\* timeout returned true and moved the breaker from Open to HalfOpen
C1_Witness ==
    /\ cb_call.op = "can_execute"
    /\ cb_call.pre = "Open"
    /\ cb_call.ret = TRUE
    /\ cb_state = "HalfOpen"
    /\ fail_run >= failure_threshold
    /\ timeout >= 1
    /\ now - last_fail_at = timeout

\* C3 (as claimed): from HalfOpen, a single record_failure call returns the
\* breaker to Open, whatever number of successes was recorded while HalfOpen.
C3_HalfOpenFailureOpens ==
    [][(cb_state = "HalfOpen" /\ IsFailureCall) => cb_state' = "Open"]_vars

\* C4: from Closed the breaker becomes Open exactly at the record_failure
\* call that brings the number of failures since the last success to
\* failure_threshold, and at no other step.
C4_OpensAtThreshold ==
    [][cb_state = "Closed" =>
          (cb_state' = "Open" <=> (IsFailureCall /\ fail_run' = failure_threshold))]_vars

\* C4 witness: the breaker went Closed -> Open at failure number
\* failure_threshold >= 2 of a run
C4_Witness ==
    /\ cb_call.op = "record_failure"
    /\ cb_call.pre = "Closed"
    /\ cb_state = "Open"
    /\ failure_threshold >= 2
    /\ fail_run = failure_threshold

\* C5: the breaker leaves Open only by a can_execute poll made at least
\* timeout after the last recorded failure, and that poll moves it to
\* HalfOpen; record_success and record_failure keep it Open, and a failure
\* recorded while Open restarts the cooldown from that failure.
C5_LeavesOpenOnlyByPoll ==
    [][cb_state = "Open" =>
          /\ (cb_state' # "Open" =>
                /\ IsCanExecuteCall
                /\ cb_state' = "HalfOpen"
                /\ last_fail_at # NoInstant
                /\ now - last_fail_at >= timeout)
          /\ ((IsSuccessCall \/ IsFailureCall) => cb_state' = "Open")
          /\ (IsFailureCall => last_failure_time' = now)]_vars

\* C5 witness: a failure was recorded while Open, later than the one that
\* opened the breaker, and a poll then moved the breaker to HalfOpen
C5_Witness ==
    /\ cb_call.op = "can_execute"
    /\ cb_call.pre = "Open"
    /\ cb_state = "HalfOpen"
    /\ timeout >= 1
    /\ fail_run > failure_threshold
    /\ last_fail_at >= 1

\* C6: from HalfOpen, the record_success call that brings the run of
\* consecutive successes to success_threshold moves the breaker to Closed,
\* and while that run is below success_threshold no success or poll moves
\* the breaker out of HalfOpen.
C6_ClosesAtSuccessThreshold ==
    [][cb_state = "HalfOpen" =>
          /\ ((IsSuccessCall /\ succ_run' = success_threshold) => cb_state' = "Closed")
          /\ ((succ_run' < success_threshold /\ ~IsFailureCall) => cb_state' = "HalfOpen")]_vars

\* C6 witness: with success_threshold >= 2 the breaker went HalfOpen ->
\* Closed at the success that completed the run
C6_Witness ==
    /\ cb_call.op = "record_success"
    /\ cb_call.pre = "HalfOpen"
    /\ cb_state = "Closed"
    /\ success_threshold >= 2
    /\ succ_run = success_threshold

\* C7: after every record_success or record_failure call at most one of the
\* two counters is non-zero: a success sets the failure counter to 0 and a
\* failure sets the success counter to 0.
C7_CountersExclusive ==
    [][/\ (IsSuccessCall => consecutive_failures' = 0)
       /\ (IsFailureCall => consecutive_successes' = 0)
       /\ (consecutive_failures' = 0 \/ consecutive_successes' = 0)]_vars

\* C7 witness: a success was recorded when the failure counter was non-zero
C7_Witness ==
    /\ cb_call.op = "record_success"
    /\ cb_call.pf >= 1
    /\ consecutive_failures = 0
    /\ consecutive_successes = 1

(***************************************************************************)
(* Properties of the arbitrage detector                                    *)
(***************************************************************************)
\* the pair has a cached quote of the venue
HasQuote(pair, dex) == << pair, dex >> \in DOMAIN price_cache

\* (bid_B - ask_A) / ask_A * 100 for the cached quotes of venues a and b
\* (a zero bid gives -100 whatever the ask)
CrossingGross(pair, a, b) ==
    IF price_cache[<< pair, b >>].bid = 0
    THEN -1000000
    ELSE DecDiv((price_cache[<< pair, b >>].bid - price_cache[<< pair, a >>].ask) * 1000000,
                price_cache[<< pair, a >>].ask)

\* (bid_B - ask_A) / ask_A * 100 - (fee_A + fee_B)
CrossingNet(pair, a, b) == CrossingGross(pair, a, b) - (FeePercentage(a) + FeePercentage(b))

\* the returned list holds an opportunity buy a, sell b with that net %
Reported(a, b, net) ==
    \E i \in 1..Len(find_call.result) :
        /\ find_call.result[i].buy_dex = a
        /\ find_call.result[i].sell_dex = b
        /\ find_call.result[i].net_profit_pct = net

\* C8 (as claimed): for every pair and every ordered pair (a, b) of distinct
\* venues among all six that have a cached quote, a crossing whose net % is
\* above min_profit_threshold is in the list find_opportunities(pair)
\* returns, with buy venue a, sell venue b and that net %.
C8_EveryVenueCrossingReported ==
    find_call.query \in TokenPairs =>
        \A a, b \in DexType :
            ( /\ a # b
              /\ HasQuote(find_call.query, a)
              /\ HasQuote(find_call.query, b)
              /\ price_cache[<< find_call.query, a >>].ask # 0
              /\ CrossingNet(find_call.query, a, b) > min_profit_threshold )
            => Reported(a, b, CrossingNet(find_call.query, a, b))

\* C9: find_opportunities and find_all_opportunities never return an
\* opportunity whose net % is at or below min_profit_threshold.
C9_NoneAtOrBelowThreshold ==
    \A i \in 1..Len(find_call.result) :
        find_call.result[i].net_profit_pct > min_profit_threshold

\* C9 witness: a call returned a non-empty list while two scanned venues
\* cross at a net % equal to the threshold, and that crossing is not in it
C9_Witness ==
    /\ find_call.query # "none"
    /\ Len(find_call.result) >= 1
    /\ \E pair \in TokenPairs : \E i, j \in 1..Len(ScannedDexs) :
          /\ i # j
          /\ find_call.query \in {pair, "ALL"}
          /\ HasQuote(pair, ScannedDexs[i])
          /\ HasQuote(pair, ScannedDexs[j])
          /\ price_cache[<< pair, ScannedDexs[i] >>].ask # 0
          /\ price_cache[<< pair, ScannedDexs[j] >>].bid # 0
          /\ CrossingNet(pair, ScannedDexs[i], ScannedDexs[j]) = min_profit_threshold
          /\ \A k \in 1..Len(find_call.result) :
                ~ ( /\ find_call.result[k].pair = pair
                    /\ find_call.result[k].buy_dex = ScannedDexs[i]
                    /\ find_call.result[k].sell_dex = ScannedDexs[j] )

\* C10 (as claimed): with Raydium (fee 0.25%) at bid 99.90 / ask 100.00 and
\* Orca (fee 0.30%) at bid 101.50 / ask 101.60 for SOL/USDC, and a threshold
\* of at most 0.95, find_opportunities returns a Raydium -> Orca opportunity
\* with gross % 1.50 and net % 0.95.
C10_ExampleNetIs095 ==
    ( /\ find_call.query = "SOL/USDC"
      /\ HasQuote("SOL/USDC", "Raydium")
      /\ HasQuote("SOL/USDC", "Orca")
      /\ price_cache[<< "SOL/USDC", "Raydium" >>].bid = 9990
      /\ price_cache[<< "SOL/USDC", "Raydium" >>].ask = 10000
      /\ price_cache[<< "SOL/USDC", "Orca" >>].bid = 10150
      /\ price_cache[<< "SOL/USDC", "Orca" >>].ask = 10160
      /\ min_profit_threshold <= 9500 )
    => \E i \in 1..Len(find_call.result) :
          /\ find_call.result[i].buy_dex = "Raydium"
          /\ find_call.result[i].sell_dex = "Orca"
          /\ find_call.result[i].gross_profit_pct = 15000
          /\ find_call.result[i].net_profit_pct = 9500

(***************************************************************************)
(* Properties of the trade step                                            *)
(***************************************************************************)
\* the last execute_trade call passed the risk gate and its executor call
\* ended in failure: Err, or a TradeResult with success = false
AttemptFailed ==
    /\ attempt.decision \in {"Approved", "Reduced"}
    /\ ~(attempt.result.ok /\ attempt.result.success)

\* C2 (as claimed): every trade attempt passes exactly one TradeOutcome to
\* risk_manager.record_trade, and an attempt that ended in failure (executor
\* Err or TradeResult with success = false) passes one with
\* was_successful = false.
C2_FailureRecordedOnce ==
    attempt.decision \in {"Approved", "Reduced"} =>
        /\ Len(attempt.outcomes) = 1
        /\ AttemptFailed => attempt.outcomes[1].was_successful = FALSE

(***************************************************************************)
(* Properties of the detector queries and of the cache writes              *)
(***************************************************************************)
\* the number of occurrences of x in the list
Count(list, x) == Cardinality({i \in DOMAIN list : list[i] = x})

\* the net % never rises along the list
NonIncreasingNet(list) ==
    \A i \in DOMAIN list : \A j \in DOMAIN list :
        i < j => list[i].net_profit_pct >= list[j].net_profit_pct

\* the occurrences of x in the lists find_opportunities returns for the pairs
RECURSIVE CountOverPairs(_, _)
CountOverPairs(pairs, x) ==
    IF pairs = {} THEN 0
    ELSE LET p == CHOOSE q \in pairs : TRUE
         IN  Count(FindOpportunities(p), x) + CountOverPairs(pairs \ {p}, x)

\* every opportunity some find_opportunities(p), p a cached pair, returns
PerPairOpportunities ==
    UNION { {FindOpportunities(p)[i] : i \in DOMAIN FindOpportunities(p)} : p \in CachedPairs }

\* C11: the list find_all_opportunities returns holds each opportunity as
\* often as the lists of find_opportunities(p) for the cached pairs p hold it
\* together (none missing, none added), and the list of either function is
\* in non-increasing order of net %.
C11_FindAllIsSortedUnion ==
    /\ find_call.query # "none" => NonIncreasingNet(find_call.result)
    /\ find_call.query = "ALL" =>
          \A x \in PerPairOpportunities \cup {find_call.result[i] : i \in DOMAIN find_call.result} :
              Count(find_call.result, x) = CountOverPairs(CachedPairs, x)

\* find_all_opportunities returned opportunities of two pairs with different net %
C11_Witness ==
    /\ find_call.query = "ALL"
    /\ \E i, j \in DOMAIN find_call.result :
          /\ find_call.result[i].pair # find_call.result[j].pair
          /\ find_call.result[i].net_profit_pct > find_call.result[j].net_profit_pct

\* the positions of the vector that write the key
WritesOf(prices, key) == {i \in DOMAIN prices : << prices[i].pair, prices[i].dex >> = key}

\* the step is a completed update_prices call
IsUpdatePricesCall == cache_call'.op = "update_prices"

\* C15: after update_prices(prices) the cache holds, under each key the
\* vector writes, the quote of the last element written for that key, and
\* under every other key what it held before (nothing if it held nothing):
\* one quote a key, the most recent one.
C15_LastWriteWins ==
    [][IsUpdatePricesCall =>
          /\ \A i \in DOMAIN cache_call'.prices :
                (\A j \in DOMAIN cache_call'.prices :
                    j > i => << cache_call'.prices[j].pair, cache_call'.prices[j].dex >>
                                # << cache_call'.prices[i].pair, cache_call'.prices[i].dex >>)
                => /\ << cache_call'.prices[i].pair, cache_call'.prices[i].dex >> \in DOMAIN price_cache'
                   /\ price_cache'[<< cache_call'.prices[i].pair, cache_call'.prices[i].dex >>]
                         = cache_call'.prices[i]
          /\ \A key \in DOMAIN price_cache' :
                (\A i \in DOMAIN cache_call'.prices :
                    << cache_call'.prices[i].pair, cache_call'.prices[i].dex >> # key)
                => key \in DOMAIN price_cache /\ price_cache'[key] = price_cache[key]
          /\ \A key \in DOMAIN price_cache : key \in DOMAIN price_cache']_vars

\* update_prices was called with two different quotes of a key already
\* cached with a third content, another key being cached too
C15_Witness ==
    /\ cache_call.op = "update_prices"
    /\ Len(cache_call.prices) = 2
    /\ cache_call.prices[1] # cache_call.prices[2]
    /\ WritesOf(cache_call.prices, << "SOL/USDC", "Orca" >>) = {1, 2}
    /\ Cardinality(DOMAIN price_cache) >= 2

\* C12 (as claimed): once clear_stale_prices(0) has returned the cache is
\* empty, whatever the timestamps of the quotes it held.
C12_ClearZeroEmpties ==
    (cache_call.op = "clear_stale_prices" /\ cache_call.max_age_seconds = 0)
        => DOMAIN price_cache = {}

\* the step is a completed clear_stale_prices call
IsClearCall == cache_call'.op = "clear_stale_prices"

\* C13 (as claimed): after clear_stale_prices(max) a key is cached iff it was
\* cached before and the age now - timestamp of its quote is less than max
\* seconds; the quotes that stay are unaltered.
C13_RetainsAgeBelowMax ==
    [][IsClearCall =>
          /\ DOMAIN price_cache' =
                {key \in DOMAIN price_cache :
                    utc_now - price_cache[key].timestamp
                        < cache_call'.max_age_seconds * TicksPerSecond}
          /\ \A key \in DOMAIN price_cache' : price_cache'[key] = price_cache[key]]_vars

\* C13 (amended): as claimed, except that an age between -1 s and 0 (a
\* timestamp less than a second ahead of the clock) counts as 0 seconds.
C13_RetainsWholeSecondsBelowMax ==
    [][IsClearCall =>
          /\ DOMAIN price_cache' =
                {key \in DOMAIN price_cache :
                    LET age == utc_now - price_cache[key].timestamp IN
                    IF -TicksPerSecond < age /\ age < 0
                    THEN 0 < cache_call'.max_age_seconds
                    ELSE age < cache_call'.max_age_seconds * TicksPerSecond}
          /\ \A key \in DOMAIN price_cache' : price_cache'[key] = price_cache[key]]_vars

\* clear_stale_prices(1) met a quote of half a second, one of a second and
\* one stamped half a second ahead of the clock, and kept the first and the last
C13_Witness ==
    /\ cache_call.op = "clear_stale_prices"
    /\ cache_call.max_age_seconds = 1
    /\ DOMAIN price_cache = { << "SOL/USDC", "Raydium" >>, << "SOL/USDC", "Jupiter" >> }
    /\ price_cache[<< "SOL/USDC", "Raydium" >>].timestamp = utc_now - 1
    /\ price_cache[<< "SOL/USDC", "Jupiter" >>].timestamp = utc_now + 1

\* the cached quote of the venue for the pair of the opportunity
QuoteOf(opp, dex) == price_cache[<< opp.pair, dex >>]

\* the quote is at most max_price_age_seconds old
WithinMaxAge(price) == utc_now - price.timestamp <= max_price_age_seconds * TicksPerSecond

\* C14 (as claimed): in the bot loop and in the collector loop, when
\* find_all_opportunities has returned, both quotes of every opportunity of
\* its list are at most the configured max age old.
C14_NoOpportunityFromStaleQuotes ==
    (loop_kind \in {"bot", "collector"} /\ find_call.query = "ALL") =>
        \A i \in DOMAIN find_call.result :
            /\ WithinMaxAge(QuoteOf(find_call.result[i], find_call.result[i].buy_dex))
            /\ WithinMaxAge(QuoteOf(find_call.result[i], find_call.result[i].sell_dex))

\* the same for the bot loop alone
BotNoOpportunityFromStaleQuotes == loop_kind = "bot" => C14_NoOpportunityFromStaleQuotes

\* the bot detected an opportunity one of whose quotes has an age above zero
BotDetectsFromAgedQuote ==
    /\ loop_kind = "bot"
    /\ find_call.query = "ALL"
    /\ \E i \in DOMAIN find_call.result :
          utc_now > QuoteOf(find_call.result[i], find_call.result[i].buy_dex).timestamp

(***************************************************************************)
(* Properties of Executor::execute                                         *)
(***************************************************************************)
\* the positions of the observed run where the named call is made
CallsOf(name) == {i \in DOMAIN exec_call.calls : exec_call.calls[i].call = name}

\* the entries of submit_swap_transaction in the observed run
Attempts == CallsOf("attempt")

\* C16: on the standard path there are at most max_retries submission
\* attempts, numbered from 0; a successful attempt is the last call group of
\* the run and its signature is the result's; the k-th failed attempt is
\* followed, before any further attempt, by one wait of 500 * 2^k ms; and
\* when every attempt fails there were max_retries of them and the result
\* is success=false with "Submission failed: " and the last attempt's error.
C16_RetryWithBackoff ==
    exec_call.path = "standard" =>
        LET calls == exec_call.calls
            failed == {i \in Attempts : ~calls[i].ok}
        IN  /\ Cardinality(Attempts) <= max_retries
            /\ \A i \in Attempts :
                  calls[i].arg = Cardinality({j \in Attempts : j < i})
            /\ \A i \in Attempts :
                  calls[i].ok =>
                      /\ \A j \in Attempts \cup CallsOf("sleep") : j <= i
                      /\ exec_call.result = ExecSuccess(calls[i].out)
            /\ \A i \in failed :
                  \E j \in CallsOf("sleep") :
                      /\ i < j
                      /\ calls[j].arg = 500 * 2 ^ calls[i].arg
                      /\ \A m \in Attempts \cup CallsOf("sleep") : ~(i < m /\ m < j)
            /\ Cardinality(CallsOf("sleep")) = Cardinality(failed)
            /\ (Attempts # {} /\ failed = Attempts) =>
                  /\ Cardinality(Attempts) = max_retries
                  /\ \E i \in Attempts :
                        /\ \A j \in Attempts : j <= i
                        /\ exec_call.result =
                              ExecFailure("Submission failed: " \o calls[i].out)

\* two attempts failed, the third one succeeded
C16_Witness ==
    /\ exec_call.path = "standard"
    /\ Cardinality(Attempts) = 3
    /\ Cardinality(CallsOf("sleep")) = 2
    /\ exec_call.result.success

\* all three attempts failed
C16_WitnessExhausted ==
    /\ exec_call.path = "standard"
    /\ Cardinality(Attempts) = 3
    /\ Cardinality(CallsOf("sleep")) = 3
    /\ ~exec_call.result.success

\* C17 (as claimed): an attempt that ends with a decode error of the swap
\* transaction is the only attempt of the run and no wait follows it; a
\* result "Insufficient SOL balance" comes with no attempt and no wait.
C17_DecodeAndBalanceNotRetried ==
    /\ (\E i \in Attempts :
           exec_call.calls[i].out \in {"invalid base64", "undeserialisable transaction"})
          => (Cardinality(Attempts) = 1 /\ CallsOf("sleep") = {})
    /\ exec_call.result = ExecFailure("Insufficient SOL balance")
          => (Attempts = {} /\ CallsOf("sleep") = {})

\* C18 (as claimed): on the standard path without relay, a broadcast that
\* succeeded is the only broadcast of the run and the result is success
\* with its signature.
C18_ConfirmationNeverFails ==
    (exec_call.path = "standard" /\ ~exec_call.jito) =>
        \A i \in CallsOf("broadcast") :
            exec_call.calls[i].ok =>
                /\ \A j \in CallsOf("broadcast") : j <= i
                /\ exec_call.result = ExecSuccess("signature")

\* C19 (as claimed): with submit=true and a relay client, no call is a
\* broadcast through the RPC client, every relay call carries a bundle of one
\* transaction, and a successful result has the bundle id as signature.
C19_RelayOnly ==
    (exec_call.path # "none" /\ exec_call.submit /\ exec_call.jito) =>
        /\ CallsOf("broadcast") = {}
        /\ \A i \in CallsOf("relay") : exec_call.calls[i].arg = 1
        /\ exec_call.result.success => exec_call.result.signature = "bundle_id"

\* the quote and swap-transaction calls of a run, in order
QuoteAndSwapCalls(calls) == SelectSeq(calls, LAMBDA c : c.call \in {"quote", "swap"})

\* C20 (as claimed): with submit=false execute_standard makes the quote and
\* swap calls it makes with submit=true on the same answers, with the same
\* arguments, makes no balance, sign, relay or broadcast call, and returns
\* success with the synthetic signature when quote and swap succeed.
C20_DryRunSameCalls ==
    (exec_call.path = "standard" /\ ~exec_call.submit) =>
        /\ QuoteAndSwapCalls(exec_call.calls) =
              QuoteAndSwapCalls(StandardRun(exec_call.amount_usd, TRUE, exec_call.jito,
                                            exec_call.env).calls)
        /\ CallsOf("balance") \cup CallsOf("sign") \cup CallsOf("relay")
              \cup CallsOf("broadcast") = {}
        /\ (exec_call.env.quote = "ok" /\ exec_call.env.swap = "ok") =>
              exec_call.result = ExecSuccess("simulated_signature")

\* C21: an execute call runs execute_with_flash_loan when flash loans are
\* enabled and amount_usd > 1000, and execute_standard otherwise (flash
\* loans disabled, or amount_usd <= 1000, 1000 included): its calls and
\* its result are those of that path.
C21_FlashLoanAboveThreshold ==
    exec_call # NoExec =>
        LET a == exec_call.amount_usd
            taken == IF flash_loans_enabled /\ a > 1000
                     THEN FlashLoanRun(a, exec_call.submit, exec_call.jito, exec_call.env)
                     ELSE StandardRun(a, exec_call.submit, exec_call.jito, exec_call.env)
        IN  /\ exec_call.calls = taken.calls
            /\ exec_call.result = taken.result
            /\ exec_call.path = "flash_loan" <=> (flash_loans_enabled /\ a > 1000)

\* flash loans enabled and amount_usd = 1000: the simulated run returned the
\* signature of the standard path
C21_Witness ==
    /\ flash_loans_enabled
    /\ exec_call # NoExec
    /\ exec_call.amount_usd = 1000
    /\ exec_call.result = ExecSuccess("simulated_signature")

\* the observed call reached the balance check of the standard path
ReachedBalanceCheck ==
    /\ exec_call.path = "standard"
    /\ exec_call.submit
    /\ CallsOf("balance") # {}

\* C22 (as claimed): on the standard path with submit=true, once the swap
\* transaction is received, a submission attempt is made iff the balance
\* query did not report less than 10,000,000 lamports; a lower balance gives
\* the failure "Insufficient SOL balance".
C22_AttemptIffBalanceNotLow ==
    ReachedBalanceCheck =>
        LET low == exec_call.env.balance # BalanceErr /\ exec_call.env.balance < 10000000
        IN  /\ (Attempts # {}) <=> ~low
            /\ low => exec_call.result = ExecFailure("Insufficient SOL balance")

\* C22 (amended): as claimed when max_retries >= 1; with max_retries = 0 no
\* attempt is made whatever the balance, and a balance not below the reserve
\* gives "Submission failed: All retry attempts exhausted".
C22_AttemptIffBalanceNotLowAndRetries ==
    ReachedBalanceCheck =>
        LET low == exec_call.env.balance # BalanceErr /\ exec_call.env.balance < 10000000
        IN  /\ (Attempts # {}) <=> (~low /\ max_retries >= 1)
            /\ low => exec_call.result = ExecFailure("Insufficient SOL balance")
            /\ (~low /\ max_retries = 0) =>
                  exec_call.result =
                      ExecFailure("Submission failed: All retry attempts exhausted")

\* the balance equals the reserve and an attempt was made
C22_Witness ==
    /\ ReachedBalanceCheck
    /\ exec_call.env.balance = 10000000
    /\ Attempts # {}

(***************************************************************************)
(* The transaction decompiler                                              *)
(***************************************************************************)
\* the observed call returned Ok for a V0 message
DecompiledV0 ==
    /\ dec_call.called
    /\ dec_call.msg.version = "v0"
    /\ dec_call.result.kind = "ok"

\* the account index positions (instruction, account) of the observed message
MetaPositions ==
    { p \in (DOMAIN dec_call.msg.instructions) \X (1..MaxAccounts + 1) :
         p[2] \in DOMAIN dec_call.msg.instructions[p[1]].accounts }

\* the index a compiled instruction holds at a position, and the meta returned for it
IndexAt(p) == dec_call.msg.instructions[p[1]].accounts[p[2]]
MetaAt(p) == dec_call.result.instructions[p[1]].accounts[p[2]]

\* C23: in a V0 message, with or without table lookups, the account meta of a
\* static index i among N static accounts has is_signer = (i < sig) and
\* is_writable = (i < sig - sig_ro) for a signer, (i < N - unsig_ro) otherwise.
C23_StaticClassification ==
    DecompiledV0 =>
        \A p \in MetaPositions :
            LET i == IndexAt(p)
                N == Len(dec_call.msg.account_keys)
                h == dec_call.msg.header
            IN  i < N =>
                   /\ MetaAt(p).is_signer = (i < h.sig)
                   /\ MetaAt(p).is_writable =
                         IF i < h.sig THEN i < h.sig - h.sig_ro ELSE i < N - h.unsig_ro

\* the observed message with the other of the two versions that carry no lookups
OtherVersion ==
    [dec_call.msg EXCEPT !.version = IF @ = "legacy" THEN "v0" ELSE "legacy"]

\* C24: a legacy message and a V0 message without table lookups with the same
\* header, static account keys and compiled instructions decompile to the
\* same instruction list: program ids, pubkeys, flags and data.
C24_LegacyAndV0Agree ==
    (dec_call.called /\ dec_call.msg.address_table_lookups = << >>) =>
        LET other == Decompile(OtherVersion, dec_call.resolver, dec_call.checks)
        IN  (dec_call.result.kind = "ok" /\ other.kind = "ok") =>
                dec_call.result.instructions = other.instructions

\* the elements of a sequence
Range(seq) == { seq[i] : i \in DOMAIN seq }

\* the observed call got the tables from the resolver and some lookup holds an
\* index at or beyond the address count of its table
LookupIndexOutOfBounds ==
    /\ dec_call.called
    /\ dec_call.resolver.configured
    /\ dec_call.resolver.fetched
    /\ \E l \in DOMAIN dec_call.msg.address_table_lookups :
          LET lookup == dec_call.msg.address_table_lookups[l]
          IN  /\ HasTable(dec_call.resolver.tables, lookup.account_key)
              /\ \E idx \in Range(lookup.writable_indexes) \cup Range(lookup.readonly_indexes) :
                    idx >= Len(FindTable(dec_call.resolver.tables, lookup.account_key).addresses)

\* C25: a V0 message with a writable or readonly lookup index at or beyond the
\* address count of its table decompiles to an error and no instruction
\* list; the index is not skipped and the key list is not shortened.
C25_LookupIndexOutOfBoundsFails ==
    LookupIndexOutOfBounds =>
        /\ dec_call.result.kind = "err"
        /\ dec_call.result.instructions = << >>

\* a readonly index 2 into the two addresses of T1, reported as such
C25_Witness ==
    /\ LookupIndexOutOfBounds
    /\ dec_call.resolver.tables = AddressTables
    /\ dec_call.msg.address_table_lookups =
          << [account_key |-> "T1", writable_indexes |-> << 0 >>, readonly_indexes |-> << 2 >>] >>
    /\ dec_call.result = DecErr("Lookup index 2 out of bounds for table T1")

\* the key list the instruction indices of the observed message resolve against
ResolvingKeys ==
    IF dec_call.msg.address_table_lookups = << >>
    THEN dec_call.msg.account_keys
    ELSE FullKeys(dec_call.msg, dec_call.resolver.tables)

\* the lookups of the observed message, if any, were all resolved
LookupsResolved ==
    \/ dec_call.msg.address_table_lookups = << >>
    \/ /\ dec_call.resolver.configured
       /\ dec_call.resolver.fetched
       /\ FirstLookupError(dec_call.msg.address_table_lookups, dec_call.resolver.tables) = "none"

\* a program index or an account index of the observed message is outside the keys
IndexOutsideKeys ==
    /\ dec_call.called
    /\ LookupsResolved
    /\ \E i \in DOMAIN dec_call.msg.instructions :
          \/ dec_call.msg.instructions[i].program_id_index >= Len(ResolvingKeys)
          \/ \E idx \in Range(dec_call.msg.instructions[i].accounts) :
                idx >= Len(ResolvingKeys)

\* the resolver answered without a table the observed message refers to
TableMissing ==
    /\ dec_call.called
    /\ dec_call.resolver.configured
    /\ dec_call.resolver.fetched
    /\ \E l \in DOMAIN dec_call.msg.address_table_lookups :
          ~HasTable(dec_call.resolver.tables, dec_call.msg.address_table_lookups[l].account_key)

\* C26: a message with a program index or an account index outside the full
\* key list, or with a lookup table missing from the resolver's answer,
\* decompiles to an error value: no panic, no partial instruction list.
C26_MalformedMessageIsAnError ==
    (IndexOutsideKeys \/ TableMissing) =>
        /\ dec_call.result.kind = "err"
        /\ dec_call.result.error # "none"
        /\ dec_call.result.instructions = << >>

\* the observed call returned Ok for a V0 message with lookups
DecompiledLoaded == DecompiledV0 /\ dec_call.msg.address_table_lookups # << >>

\* the addresses that the first n lookups of the observed message select with
\* their writable (or their readonly) indexes, lookup after lookup
RECURSIVE ResolvedUpTo(_, _)
ResolvedUpTo(n, writable) ==
    IF n = 0 THEN << >>
    ELSE LET lookup == dec_call.msg.address_table_lookups[n]
             indexes == IF writable THEN lookup.writable_indexes ELSE lookup.readonly_indexes
             addresses == FindTable(dec_call.resolver.tables, lookup.account_key).addresses
         IN  ResolvedUpTo(n - 1, writable)
                \o [k \in DOMAIN indexes |-> addresses[indexes[k] + 1]]

\* the writable, the readonly addresses of all lookups in lookup order
ResolvedWritable == ResolvedUpTo(Len(dec_call.msg.address_table_lookups), TRUE)
ResolvedReadonly == ResolvedUpTo(Len(dec_call.msg.address_table_lookups), FALSE)

\* C27: the indices of a V0 message with table lookups resolve against the
\* static keys, then the writable addresses of all lookups in lookup order,
\* then the readonly addresses of all lookups in lookup order; index
\* static_len + j is the j-th resolved writable address.
C27_KeyListOrder ==
    DecompiledLoaded =>
        LET keys == dec_call.msg.account_keys \o ResolvedWritable \o ResolvedReadonly
        IN  /\ \A i \in DOMAIN dec_call.msg.instructions :
                  dec_call.result.instructions[i].program_id =
                      keys[dec_call.msg.instructions[i].program_id_index + 1]
            /\ \A p \in MetaPositions : MetaAt(p).pubkey = keys[IndexAt(p) + 1]
            /\ \A p \in MetaPositions :
                  LET j == IndexAt(p) - Len(dec_call.msg.account_keys)
                  IN  (0 <= j /\ j < Len(ResolvedWritable)) =>
                         MetaAt(p).pubkey = ResolvedWritable[j + 1]

\* two lookups with a writable and a readonly index each: index 2 after one
\* static key is the writable address of the second lookup
C27_Witness ==
    /\ DecompiledLoaded
    /\ dec_call.msg.account_keys = << "Payer" >>
    /\ dec_call.msg.address_table_lookups =
          << [account_key |-> "T1", writable_indexes |-> << 0 >>, readonly_indexes |-> << 1 >>],
             [account_key |-> "T2", writable_indexes |-> << 1 >>, readonly_indexes |-> << 0 >>] >>
    /\ dec_call.msg.instructions[1].accounts = << 2, 3 >>
    /\ MetaAt(<< 1, 1 >>).pubkey = "T2b"
    /\ MetaAt(<< 1, 2 >>).pubkey = "T1b"

\* C28: in a V0 message with table lookups, an account at index i >= static_len
\* is writable iff i < static_len + the number of resolved writable
\* addresses, and is never marked as signer.
C28_DynamicClassification ==
    DecompiledLoaded =>
        \A p \in MetaPositions :
            LET static_len == Len(dec_call.msg.account_keys)
            IN  IndexAt(p) >= static_len =>
                   /\ MetaAt(p).is_writable = (IndexAt(p) < static_len + Len(ResolvedWritable))
                   /\ ~MetaAt(p).is_signer

\* C29: for every message version, an Ok result holds one instruction per
\* compiled instruction in the original order, each with one account meta
\* per account index in the same order (duplicates kept) and the same data.
C29_OrderAndDataPreserved ==
    (dec_call.called /\ dec_call.result.kind = "ok") =>
        /\ Len(dec_call.result.instructions) = Len(dec_call.msg.instructions)
        /\ \A i \in DOMAIN dec_call.msg.instructions :
              LET ix == dec_call.msg.instructions[i]
                  out == dec_call.result.instructions[i]
                  keys == IF dec_call.msg.address_table_lookups = << >>
                          THEN dec_call.msg.account_keys
                          ELSE dec_call.msg.account_keys \o ResolvedWritable \o ResolvedReadonly
              IN  /\ out.data = ix.data
                  /\ out.program_id = keys[ix.program_id_index + 1]
                  /\ Len(out.accounts) = Len(ix.accounts)
                  /\ \A a \in DOMAIN ix.accounts :
                        out.accounts[a].pubkey = keys[ix.accounts[a] + 1]

\* two instructions with different data, the second with the same account twice
C29_Witness ==
    /\ dec_call.called
    /\ dec_call.result.kind = "ok"
    /\ dec_call.msg.version = "legacy"
    /\ Len(dec_call.msg.instructions) = 2
    /\ dec_call.msg.instructions[1].accounts = << 1 >>
    /\ dec_call.msg.instructions[1].data = << 2, 3 >>
    /\ dec_call.result.instructions[1].data = << 2, 3 >>
    /\ dec_call.result.instructions[2].data = << 4 >>
    /\ Len(dec_call.result.instructions[2].accounts) = 2
    /\ dec_call.result.instructions[2].accounts[1].pubkey = "Payer"
    /\ dec_call.result.instructions[2].accounts[2].pubkey = "Payer"
    /\ dec_call.result.instructions[1].accounts[1].pubkey = "Pool"

(***************************************************************************)
(* The trading loop                                                        *)
(***************************************************************************)
\* C30: in each cycle of run_trading_loop at most one opportunity is passed
\* to execute_trade, the attempt with its retries and waits is over before
\* the next cycle starts, and no two Executor::execute calls are in
\* progress at the same time.
C30_OneTradeAtATime ==
    /\ cycle.passed <= 1
    /\ cycle.executing <= 1
    /\ cycle.pc = "scan" => cycle.executing = 0
    /\ cycle.finished <= cycle.tick

\* a cycle that detected two opportunities, passed one, retried it to the
\* last attempt and is still inside Executor::execute
C30_Witness ==
    /\ cycle.opportunities = 2
    /\ cycle.passed = 1
    /\ cycle.pc = "executing"
    /\ cycle.executing = 1
    /\ cycle.nth = max_retries
    /\ cycle.tick = 2

C32_OneRecordPerAttempt ==
    [][ Len(history') =
           Len(history) + (IF attempt'.decision \in {"Approved", "Reduced"} THEN 1 ELSE 0)
      ]_vars

\* C38: Executor::execute is invoked only after can_trade returned Approved or
\* Reduced inside execute_trade, with the size of that decision; a Rejected
\* decision reaches neither the executor nor the history nor the risk
\* bookkeeping.
C38_ExecutorBehindRiskGate ==
    [][ /\ attempt'.executed =>
             /\ attempt'.decision \in {"Approved", "Reduced"}
             /\ attempt'.size = attempt'.granted
        /\ attempt'.decision = "Rejected" =>
             /\ ~attempt'.executed
             /\ UNCHANGED << history, risk_outcomes, trades_attempted,
                             trades_successful, trades_failed >>
      ]_vars

\* a Reduced decision of size 1000 was executed live after an earlier attempt
C38_Witness ==
    /\ attempt.executed
    /\ attempt.decision = "Reduced"
    /\ attempt.size = 1000
    /\ attempt.submit
    /\ trades_attempted = 2
    /\ Len(history) = 2
    /\ history[2].size_usd = 1000

(***************************************************************************)
(* Properties of the volatility tracker                                    *)
(***************************************************************************)
\* C33: get_volatility(pair) returns None until update_price has been called
\* at least twice for that pair; the first call only stores the last price,
\* and calls for other pairs create no volatility value for this pair.
C33_NoVolatilityBeforeSecondObservation ==
    /\ \A k \in VolPairs :
          tracker.updates[k] < 2 => tracker.volatilities[k] = NoVol
    /\ (tracker.call.op = "get_volatility" /\ tracker.updates[tracker.call.pair] < 2) =>
          tracker.call.ret = NoVol
    /\ (tracker.call.op = "update_price" /\ tracker.updates[tracker.call.pair] = 1) =>
          /\ tracker.last_prices[tracker.call.pair] = tracker.call.price
          /\ tracker.volatilities[tracker.call.pair] = NoVol

\* one pair observed once, the other twice: None is returned for the first
C33_Witness ==
    /\ tracker.call.op = "get_volatility"
    /\ tracker.call.pair = "SOL/USDC"
    /\ tracker.call.ret = NoVol
    /\ tracker.updates["SOL/USDC"] = 1
    /\ tracker.updates["RAY/USDC"] = 2
    /\ tracker.volatilities["RAY/USDC"] # NoVol

\* C34: on the second and every later observation of a pair, with previous
\* price p_prev and stored volatility v_prev (0 if none), update_price stores v
\* with v^2 = lambda * r^2 + (1 - lambda) * v_prev^2, r = (p_t - p_prev) / p_prev,
\* lambda = 2 / (N + 1), up to the rounding of the representation, and then
\* stores p_t as the last price.
C34_EwmaUpdate ==
    (tracker.call.op = "update_price" /\ tracker.updates[tracker.call.pair] >= 2) =>
        LET pair == tracker.call.pair
            n == tracker.window_size
            prev == tracker.call.last_price
            diff == tracker.call.price - prev
            v == tracker.volatilities[pair]
            v_prev == IF tracker.call.vol_before = NoVol THEN 0 ELSE tracker.call.vol_before
            lhs == v * v * (n + 1) * prev * prev
            rhs == 2 * diff * diff * VolScale * VolScale + (n - 1) * v_prev * v_prev * prev * prev
            slack == (2 * v + 1 + VolScale) * (n + 1) * prev * prev
        IN  /\ ~tracker.call.panicked
            /\ v # NoVol
            /\ lhs - rhs <= slack
            /\ rhs - lhs <= slack
            /\ tracker.last_prices[pair] = tracker.call.price

\* C34 for a previous price that is not zero
C34_EwmaUpdateNonZero ==
    (tracker.call.op = "update_price" /\ tracker.updates[tracker.call.pair] >= 2
        /\ tracker.call.last_price # 0) => C34_EwmaUpdate

(***************************************************************************)
(* Properties of the circuit breaker: recovery and concurrent callers      *)
(***************************************************************************)
\* C36: successes recorded while the breaker is Open do not count towards
\* recovery: after the Open -> HalfOpen transition at least success_threshold
\* record_success calls made while HalfOpen are needed before the breaker is
\* Closed.  Stated for the first call after the transition: it closes the
\* breaker only if the threshold is one.
C36_OpenSuccessesDoNotCount ==
    [][ ( /\ cb_call.op = "can_execute"
          /\ cb_call.pre = "Open"
          /\ cb_state = "HalfOpen"
          /\ cb_call'.op = "record_success"
          /\ cb_state' = "Closed" ) => success_threshold <= 1 ]_vars

\* the lock a suspended task awaits
Awaited(pc) ==
    CASE pc \in {"rs_successes", "rf_successes"} -> "consecutive_successes"
      [] pc \in {"rs_failures", "rf_failures"} -> "consecutive_failures"
      [] pc \in {"rs_state", "rf_state", "ce_state"} -> "state"
      [] pc \in {"rf_stamp", "ce_read"} -> "last_failure_time"

\* task t is inside an operation and the lock it awaits is held
Suspended(t) == TaskOf(t).pc # "idle" /\ Holder(Awaited(TaskOf(t).pc)) # NoTask

\* C35: any concurrent interleaving of record_success, record_failure and
\* can_execute on one breaker runs to completion: whenever some task is inside
\* an operation, some task inside an operation can take its next step.
C35_RunsToCompletion ==
    (\E t \in TaskIds : TaskOf(t).pc # "idle") =>
        (\E t \in TaskIds : TaskOf(t).pc # "idle" /\ ~Suspended(t))

\* C37: in every reachable state, also between the steps of interleaved calls,
\* an Open breaker has last_failure_time set, so a can_execute poll that finds
\* it Open once the timeout has elapsed returns true.
C37_OpenHasFailureTime ==
    /\ cb_state = "Open" => last_failure_time # NoInstant
    /\ \A t \in TaskIds :
          ( /\ TaskOf(t).op = "can_execute"
            /\ TaskOf(t).pc = "idle"
            /\ TaskOf(t).pre = "Open"
            /\ (TaskOf(t).stamp = NoInstant \/ TaskOf(t).at - TaskOf(t).stamp >= timeout) ) =>
             TaskOf(t).ret

\* a poll found the breaker Open after the cooldown and returned true while
\* another task is between two steps of record_failure
C37_Witness ==
    \E t, u \in TaskIds :
        /\ TaskOf(t).op = "can_execute"
        /\ TaskOf(t).pc = "idle"
        /\ TaskOf(t).pre = "Open"
        /\ TaskOf(t).ret
        /\ timeout > 0
        /\ TaskOf(t).at - TaskOf(t).stamp >= timeout
        /\ TaskOf(u).pc \in {"rf_successes", "rf_stamp", "rf_state"}

(***************************************************************************)
(* Properties of the two directions of a venue pair and of the candidate   *)
(* the trading loop considers                                              *)
(***************************************************************************)
\* every cached quote has bid <= ask, no venue fee and no threshold is negative
OrderedQuotes ==
    /\ \A k \in DOMAIN price_cache : price_cache[k].bid <= price_cache[k].ask
    /\ \A dex \in DexType : FeePercentage(dex) >= 0
    /\ min_profit_threshold >= 0

\* C39: for quotes with bid <= ask, non-negative fees and threshold,
\* find_opportunities never reports both directions of the same two venues, and
\* every reported opportunity buys and sells on different venues, buys at the
\* buy venue's ask, sells at the sell venue's bid, and sells above the buy price.
C39_OneDirectionPerVenuePair ==
    (find_call.query \in TokenPairs /\ OrderedQuotes) =>
        LET result == find_call.result
            pair == find_call.query
        IN  /\ \A i \in DOMAIN result :
                  /\ result[i].buy_dex # result[i].sell_dex
                  /\ << pair, result[i].buy_dex >> \in DOMAIN price_cache
                  /\ << pair, result[i].sell_dex >> \in DOMAIN price_cache
                  /\ result[i].buy_price = price_cache[<< pair, result[i].buy_dex >>].ask
                  /\ result[i].sell_price = price_cache[<< pair, result[i].sell_dex >>].bid
                  /\ result[i].sell_price > result[i].buy_price
            /\ \A i, j \in DOMAIN result :
                  ~(result[i].buy_dex = result[j].sell_dex /\ result[i].sell_dex = result[j].buy_dex)

\* two venues quote the pair apart: one direction of the two is reported
C39_Witness ==
    /\ find_call.query \in TokenPairs
    /\ OrderedQuotes
    /\ Len(find_call.result) = 1
    /\ find_call.result[1].buy_dex = "Orca"
    /\ find_call.result[1].sell_dex = "Raydium"
    /\ price_cache[<< find_call.query, "Raydium" >>].ask > price_cache[<< find_call.query, "Orca" >>].bid

\* C40: the single opportunity considered for execution in a cycle has the
\* highest net % among all candidates gathered in that cycle (detector
\* results, the synthetic dry-run opportunity, strategy results).
C40_BestCandidateConsidered ==
    (cycle.pc # "scan" /\ cycle.visited >= 1) =>
        \A i \in DOMAIN cycle.candidates : cycle.candidates[i] <= cycle.considered

====
